---- MODULE Spec2Model ----
(***************************************************************************)
(* A model of the iai-callgrind runner: the callgrind output parsers, the  *)
(* cost model, the rotation of output files, the naming of benchmarks and  *)
(* the order in which hooks and benchmarks run.                            *)
(***************************************************************************)
EXTENDS Integers, Sequences, FiniteSets, TLC

(***************************************************************************)
(* Bounds of the model.                                                    *)
(***************************************************************************)
\* Longest record body that is enumerated exhaustively over LineAlphabet.
MaxLines == 4
\* u64 is modelled as an unsigned integer of WordBits bits.
WordBits == 14

\* Longest iterator of cost strings handed to Costs::add_iter_str.
MaxTokens == 3
\* Number of cost lines added to one accumulator.
MaxAdds == 2
\* Number of runs of one benchmark, each in an invocation of its own.
MaxRuns == 3
\* Number of benchmarks (args of the runs) of one binary benchmark file.
MaxBenches == 2
\* Largest exit code of a subprocess and of ExitWith::Code.
MaxExitCode == 3
\* Longest list of callgrind arguments given by the user.
MaxArgs == 2
\* Largest cost of an event in the costs that are compared.
MaxCost == 2

U64 == 2 ^ WordBits

\* The number of counters both parsers keep: Ir Dr Dw I1mr D1mr D1mw ILmr DLmr DLmw.
NumCounters == 9

VARIABLES
    \* ---- callgrind output parsers and cost model
    parser,          \* the function that parses: "parse_callgrind_output" or "CallgrindOutput_parse"
    file,            \* the lines of the callgrind output file
    pos,             \* number of lines the line iterator has yielded
    phase,           \* position of the parsing function
    warned,          \* the "Missing file format specifier" warning was logged
    mode,            \* PositionsMode found by CallgrindOutput::parse
    start_record,    \* parser flags
    maybe_counting,
    start_counting,
    counters,        \* [u64; 9]
    counted,         \* history: indexes of the lines whose counters were added
    summary,         \* result of CallgrindStats::summarize
    \* ---- Costs, the vector of events of callgrind/mod.rs
    accumulator,     \* what cost lines are added to: "Costs", "counters" or "unreachable"
    costs,           \* Costs(Vec<Event>)
    adds,            \* number of additions made
    last_add,        \* history: the last addition, its operands and its outcome
    \* ---- output files of one benchmark and their rotation
    rotation,        \* the function that rotates: "create" (copy) or "move_old" (rename)
    fs,              \* the files of the benchmark's output directory: name -> contents
    step,            \* position of the run: "idle", "created", "ran"
    run_id,          \* number of the current run, 0 before the first
    fs_before,       \* history: fs when the last rotation began
    last_success,    \* history: the last run whose command succeeded, 0 when none
    failed,          \* history: the runs whose command failed
    compared,        \* history: the last comparison of new and old output
    \* ---- the benchmarks of a binary benchmark file and their output names
    name_step,       \* position: "parse_runs", "benches", "done"
    orig,            \* run.orig of the run whose args parse_runs is iterating over
    counter,         \* the counter of parse_runs
    benches,         \* Vec<BinBench>
    created,         \* history: the names given to CallgrindOutput::create and its files
    \* ---- run of bin_bench.rs: the hooks and the benchmarks in their order
    assists,         \* BenchmarkAssistants: kind -> [present, bench]
    n_benches,       \* config.benches.len()
    position,        \* the step run has reached: [kind, index]
    running,         \* the child process of the step is running
    log,             \* history: the starts and the ends of the child processes
    result,          \* what run returned: "none", "Ok" or "Err"
    error,           \* the error run returned: the step it came from, and its kind
    \* ---- the exit status of the subprocess against the exit_with policy
    exit_impl,       \* the function that checks: "CallgrindCommand_check_exit" or "check_exit"
    exit_with,       \* Option<ExitWith>
    exit_step,       \* position: "run", "output", "checked"
    exit_output,     \* what Command::output returned
    exit_result,     \* what the check returned
    \* ---- the arguments of callgrind
    args_impl,       \* who prepares them: "Config_new" (lib.rs) or "parse_callgrind_args"
    raw_args,        \* the arguments as given
    args_step,       \* position: "given", "stripped", "config", "done"
    arg_list,        \* the list from_args is called with
    callgrind_args,  \* config.callgrind_args, the result of from_args
    bench_argv,      \* history: per benchmark, its entry point and its final arguments
    \* ---- the summary of the costs
    new_costs,       \* the costs of this run: event kind -> cost
    old_costs,       \* the costs of the run before: <<>> or <<costs>>
    summary_step,    \* position: "given", "done"
    costs_summary,   \* CostsSummary: event kind -> CostsDiff
    \* ---- a row of the printed comparison
    print_new,       \* the value of this run
    print_old,       \* the value of the run before: <<>> or <<value>>
    print_step,      \* position: "given", "printed"
    print_delta,     \* what is printed after the value
    \* ---- the regressions of the benchmarks
    is_regressed,    \* the flag the caller accumulates over the benchmarks
    reg_error,       \* the error check_regression returned, or "none"
    reg_log,         \* history: per benchmark its summary, the flag before and after, the result
    \* ---- the parse of the summary of a file
    totals_file,     \* the lines of the file
    totals_step,     \* position: "given", "done"
    totals_stats,    \* what parse_summary returned, or that it panicked
    \* ---- the file names of the output paths
    path_impl,       \* what builds the path: "CallgrindOutput" or "ToolOutputPath"
    path_tool,       \* index of the ValgrindTool of the path
    path_name,       \* the name of the benchmark, its bytes
    path_step,       \* position: "given", "made"
    path_files,      \* the file names of the output and of its old output, their bytes
    \* ---- the two formulations of the cost model on the same counters
    both_counters,   \* the counters both summarize are given
    both_step,       \* position: "given", "summarized"
    both_summaries,  \* what summarize of lib.rs and of callgrind/mod.rs returned
    \* ---- the harness of main! and the runner it starts
    benchmarks,      \* the benchmarks of the harness: the names given to main!, in their order
    started_by,      \* what started the runner: "main!" or "command line"
    runner_args,     \* the arguments of the runner, after its own name
    runner_step,     \* position of the runner
    scanned,         \* number of arguments Config::new has taken off the iterator
    config,          \* the fields of Config that Config::new has set
    bench_index,     \* index of the next benchmark of run
    iai_runs,        \* history: per harness started with --iai-run its index, the name of the runner and what it did
    runner_starts,   \* number of times a harness has started the runner
    \* ---- the parse of a log file
    log_lines,       \* the lines of the log file
    log_step,        \* position: "given", "returned"
    log_summary,     \* what parse_single returned, with the states it went through
    \* ---- two runners that rotate the files of one output path at the same time
    race_fs,         \* the files of the output path both runners work on
    race_pc,         \* per runner its position in init, in the run of valgrind and in the comparison
    race_list,       \* per runner the entries of its glob that it has still to handle
    race_prior,      \* history: per runner what the output file held when the runner began
    race_compared,   \* history: per runner what the old output file held when the runner read it
    race_missed,     \* history: per runner the entry that was gone when the runner came to it
    race_taken,      \* history: per file name the runners that removed or renamed the file
    race_overlap     \* history: a runner began while another was between its begin and its end

parseVars == <<parser, file, pos, phase, warned, mode, start_record, maybe_counting,
               start_counting, counters, counted, summary>>

costsVars == <<accumulator, costs, adds, last_add>>

rotateVars == <<rotation, fs, step, run_id, fs_before, last_success, failed, compared>>

namesVars == <<name_step, orig, counter, benches, created>>

orchVars == <<assists, n_benches, position, running, log, result, error>>

exitVars == <<exit_impl, exit_with, exit_step, exit_output, exit_result>>

argsVars == <<args_impl, raw_args, args_step, arg_list, callgrind_args, bench_argv>>
diffVars == <<new_costs, old_costs, summary_step, costs_summary>>

\* The variables of the parts that follow the five above.
printVars == <<print_new, print_old, print_step, print_delta>>

\* The variables of the parts that follow the eight above.
regVars == <<is_regressed, reg_error, reg_log>>
totalsVars == <<totals_file, totals_step, totals_stats>>
pathVars == <<path_impl, path_tool, path_name, path_step, path_files>>

\* The variables of the parts that follow the twelve above.
formulasVars == <<both_counters, both_step, both_summaries>>
harnessVars == <<benchmarks, started_by, runner_args, runner_step, scanned, config,
                 bench_index, iai_runs, runner_starts>>
logfileVars == <<log_lines, log_step, log_summary>>
raceVars == <<race_fs, race_pc, race_list, race_prior, race_compared, race_missed, race_taken,
              race_overlap>>
lastVars == <<formulasVars, harnessVars, logfileVars, raceVars>>

newerVars == <<printVars, regVars, totalsVars, pathVars, lastVars>>

laterVars == <<exitVars, argsVars, diffVars, newerVars>>

vars == <<parseVars, costsVars, rotateVars, namesVars, orchVars, laterVars>>

\* What the parsing functions do not touch.
notParseVars == <<costsVars, rotateVars, namesVars, orchVars, laterVars>>

\* What the additions to an accumulator do not touch.
notCostsVars == <<rotateVars, namesVars, orchVars, laterVars>>

\* What the runs of a benchmark do not touch.
notRotateVars == <<parseVars, costsVars, namesVars, orchVars, laterVars>>

\* What the naming of the output files does not touch.
notNamesVars == <<parseVars, costsVars, rotateVars, orchVars, laterVars>>

\* What the sequence of hooks and benchmarks does not touch.
notOrchVars == <<parseVars, costsVars, rotateVars, namesVars, laterVars>>

\* What the check of the exit status does not touch.
notExitVars == <<parseVars, costsVars, rotateVars, namesVars, orchVars, argsVars, diffVars,
                 newerVars>>

\* What the preparation of the callgrind arguments does not touch.
notArgsVars == <<parseVars, costsVars, rotateVars, namesVars, orchVars, exitVars, diffVars,
                 newerVars>>

\* What CostsSummary::new does not touch.
notDiffVars == <<parseVars, costsVars, rotateVars, namesVars, orchVars, exitVars, argsVars,
                 newerVars>>

\* What the print of a row does not touch.
notPrintVars == <<parseVars, costsVars, rotateVars, namesVars, orchVars, exitVars, argsVars,
                  diffVars, regVars, totalsVars, pathVars, lastVars>>

\* What check_regression does not touch.
notRegVars == <<parseVars, costsVars, rotateVars, namesVars, orchVars, exitVars, argsVars,
                diffVars, printVars, totalsVars, pathVars, lastVars>>

\* What parse_summary does not touch.
notTotalsVars == <<parseVars, costsVars, rotateVars, namesVars, orchVars, exitVars, argsVars,
                   diffVars, printVars, regVars, pathVars, lastVars>>

\* What the making of a path does not touch.
notPathVars == <<parseVars, costsVars, rotateVars, namesVars, orchVars, exitVars, argsVars,
                 diffVars, printVars, regVars, totalsVars, lastVars>>

olderVars == <<parseVars, costsVars, rotateVars, namesVars, orchVars, exitVars, argsVars,
               diffVars, printVars, regVars, totalsVars, pathVars>>

\* What the two summarize does not touch.
notFormulasVars == <<olderVars, harnessVars, logfileVars, raceVars>>

\* What the run of the harness and of the runner does not touch.
notHarnessVars == <<olderVars, formulasVars, logfileVars, raceVars>>

\* What LogfileParser::parse_single does not touch.
notLogfileVars == <<olderVars, formulasVars, harnessVars, raceVars>>

\* What the runners of the same output path does not touch.
notRaceVars == <<olderVars, formulasVars, harnessVars, logfileVars>>

(***************************************************************************)
(* Sequences.                                                              *)
(***************************************************************************)
SeqsUpTo(S, n) == UNION {[1..k -> S] : k \in 0..n}

IsPrefix(p, s) == Len(p) <= Len(s) /\ SubSeq(s, 1, Len(p)) = p

\* iter.skip(n)
Skip(s, n) == SubSeq(s, n + 1, Len(s))

\* The least member of a set of indexes, 0 when the set is empty.
FirstOf(hits) ==
    IF hits = {} THEN 0 ELSE CHOOSE i \in hits : \A j \in hits : i <= j

\* iter.take(n)
Take(s, n) == SubSeq(s, 1, IF Len(s) < n THEN Len(s) ELSE n)

(***************************************************************************)
(* Lines of a callgrind output file.  A line is what the parsers can tell  *)
(* about it: how it starts, the name after fn=, the mode after             *)
(* "positions: " and its whitespace separated columns.  A column is a      *)
(* decimal number n >= 0, or -n for the hexadecimal address 0x<n>, which   *)
(* str::parse::<u64> rejects.                                              *)
(***************************************************************************)
Line(kind, name, m, cols) == [kind |-> kind, name |-> name, mode |-> m, cols |-> cols]

FormatLine == Line("format", <<>>, "", <<>>)          \* # callgrind format
EventsLine == Line("events", <<>>, "", <<>>)          \* events: Ir Dr Dw ...
PositionsLine(m) == Line("positions", <<>>, m, <<>>)  \* positions: <m>
EmptyLine == Line("empty", <<>>, "", <<>>)
FnLine(name) == Line("fn", name, "", <<>>)            \* fn=<name>
CfnLine == Line("cfn", <<>>, "", <<>>)                \* cfn=<callee>
CallsLine == Line("calls", <<>>, "", <<>>)            \* calls=<n> <pos>
CostLine(cols) == Line("cost", <<>>, "", cols)        \* <pos> <c0> <c1> ...
OtherLine == Line("other", <<>>, "", <<>>)            \* ob=, fl=, fi=, ...

\* The sentinel my_mod::bench_a, as its path segments.
SentinelName == <<"my_mod", "bench_a">>

(***************************************************************************)
(* What the parsers test on a line.                                        *)
(***************************************************************************)
\* line.trim_start().is_empty()
is_empty(l) == l.kind = "empty"

\* line.contains("callgrind format")
contains_callgrind_format(l) == l.kind = "format"

\* Sentinel::to_fn: the string fn=<sentinel>, here the name after fn=
to_fn(sentinel) == sentinel

\* line.starts_with(&sentinel.to_fn()): the line is fn=<name> and the
\* sentinel is a prefix of <name>
starts_with_sentinel(l, sentinel) == l.kind = "fn" /\ IsPrefix(to_fn(sentinel), l.name)

\* line.starts_with("cfn=")
starts_with_cfn(l) == l.kind = "cfn"

\* line.starts_with("calls")
starts_with_calls(l) == l.kind = "calls"

\* line.starts_with(|c: char| c.is_ascii_digit())
starts_with_digit(l) == l.kind = "cost"

\* PositionsMode::from_positions_line; "None" when the line declares no mode
from_positions_line(l) ==
    IF l.kind # "positions" THEN "None"
    ELSE IF l.mode \in {"instr line", "line instr"} THEN "InstrLine"
    ELSE IF l.mode = "instr" THEN "Instr"
    ELSE IF l.mode = "line" THEN "Line"
    ELSE "None"

(***************************************************************************)
(* Adding the counters of a cost line.                                     *)
(***************************************************************************)
\* parse_callgrind_output skips "the first number which is just the line number"
SkipLineNumber == 1

\* CallgrindOutput::parse: .skip(if mode == PositionsMode::InstrLine { 2 } else { 1 })
SkipPositions(m) == IF m = "InstrLine" THEN 2 ELSE 1

\* .skip(n) ... .take(9): the columns that are parsed as counters
CounterColumns(cols, n) == Take(Skip(cols, n), NumCounters)

\* s.parse::<u64>().expect("Encountered non ascii digit") panics on one of them
ParsePanics(nums) == \E i \in 1..Len(nums) : nums[i] < 0

\* for (index, counter) in ... .enumerate() { counters[index] += counter; }
AddCounters(cs, nums) ==
    [i \in 1..Len(cs) |-> IF i <= Len(nums) THEN (cs[i] + nums[i]) % U64 ELSE cs[i]]

ZeroCounters == [i \in 1..NumCounters |-> 0]

(***************************************************************************)
(* Costs: the vector of events of callgrind/mod.rs.  An iterator of cost   *)
(* strings is a sequence of columns as above.                              *)
(***************************************************************************)
\* The variants of EventType, named as the strings of the events: line.
EventTypes ==
    {"Ir", "Dr", "Dw", "I1mr", "ILmr", "D1mr", "DLmr", "D1mw", "DLmw", "sysCount",
     "sysTime", "sysCpuTime", "Ge", "Bc", "Bcm", "Bi", "Bim", "ILdmr", "DLdmr", "DLdmw",
     "AcCost1", "AcCost2", "SpLoss1", "SpLoss2"}

\* EventType::from: unknown => unreachable!("Unknown event type: {unknown}")
EventType_from_panics(events) == \E i \in 1..Len(events) : events[i] \notin EventTypes

Event(kind, cost) == [kind |-> kind, cost |-> cost]

\* impl Default for Costs
Costs_default == <<Event("Ir", 0)>>

\* impl FromIterator for Costs
Costs_from_iter(events) == [i \in 1..Len(events) |-> Event(events[i], 0)]

\* self.0.iter_mut().zip(iter): the number of pairs the zip yields
ZipLen(v, iter) == IF Len(v) < Len(iter) THEN Len(v) ELSE Len(iter)

\* The first pair of the zip whose addition panics, 0 when none does:
\* parse::<u64>().unwrap() of a string that is no decimal number, or,
\* with overflow checks, a `+=` that overflows.
FirstPanic(cs, nums, overflow_checks) ==
    FirstOf({i \in 1..ZipLen(cs, nums) :
                \/ nums[i] < 0
                \/ overflow_checks /\ cs[i] + nums[i] >= U64})

\* The costs of the events.
CostsOfEvents(v) == [i \in 1..Len(v) |-> v[i].cost]

KindsOfEvents(v) == [i \in 1..Len(v) |-> v[i].kind]

\* The loop of add_iter_str with the pairs from `upto` on left out.
add_iter_str_KeepsFirst(v, iter, upto) ==
    [i \in 1..Len(v) |->
        IF 1 < i /\ i <= ZipLen(v, iter) /\ i < upto
        THEN Event(v[i].kind, (v[i].cost + iter[i]) % U64)
        ELSE v[i]]

\* Costs::add_iter_str; the loop stops before pair `upto` (a panic there).
add_iter_str(v, iter, upto) ==
    [i \in 1..Len(v) |->
        IF i <= ZipLen(v, iter) /\ i < upto
        THEN Event(v[i].kind, (v[i].cost + iter[i]) % U64)
        ELSE v[i]]

\* Costs::add
Costs_add(v, other, upto) == add_iter_str(v, CostsOfEvents(other), upto)

\* The record of an addition.
Added(op, before, iter, after, panicked) ==
    [op |-> op, before |-> before, iter |-> iter, after |-> after, panicked |-> panicked]

NoAdd == Added("none", <<>>, <<>>, <<>>, FALSE)

\* No accumulator is in use.
IdleCosts ==
    /\ accumulator = "none"
    /\ costs = <<>>
    /\ adds = 0
    /\ last_add = NoAdd

(***************************************************************************)
(* The output files of one benchmark.  A file name is the sequence of the  *)
(* dot separated components that follow "callgrind.<name>": <<"out">> is   *)
(* callgrind.<name>.out.  The contents of a file are <<r, part>>: what run *)
(* r wrote to the file named part; <<>> stands for a file that does not    *)
(* exist.                                                                  *)
(***************************************************************************)
Out == <<"out">>
\* CallgrindOutput::old_output: self.file.with_extension("out.old")
OutOld == <<"out", "old">>
\* What valgrind writes besides: a further dump and the file of a thread.
PartNames == {<<"out", "2">>, <<"out-01">>}
LogName == <<"log">>

\* Path::extension
extension(n) == n[Len(n)]

\* Path::with_extension
with_extension(n, e) == SubSeq(n, 1, Len(n) - 1) \o e

\* let mut extension = entry.extension(); extension.push(".old");
\* entry.with_extension(extension)
OldNameOf(n) == with_extension(n, <<extension(n), "old">>)

FileNames ==
    {Out, LogName} \cup PartNames \cup {OldNameOf(n) : n \in {Out, LogName} \cup PartNames}

NoFile == <<>>

\* The component c begins with the extension e of the path.
BeginsWith(c, e) == c = e \/ (e = "out" /\ c = "out-01")

\* glob("<path>*"): the names that begin with callgrind.<name>.<extension>
GlobPath(n, e) == BeginsWith(n[1], e)

\* glob("<path>*.old")
GlobPathOld(n, e) == GlobPath(n, e) /\ Len(n) > 1 /\ extension(n) = "old"

Exists(f, n) == f[n] # NoFile

\* The first loop of move_old: std::fs::remove_file(entry) of every <path>*.old
remove_old_files(f, e) ==
    [n \in FileNames |-> IF GlobPathOld(n, e) /\ Exists(f, n) THEN NoFile ELSE f[n]]

\* The second loop of move_old: std::fs::rename(entry, <entry>.old) of every <path>*
rename_to_old(f, e) ==
    LET found == {m \in FileNames : GlobPath(m, e) /\ Exists(f, m)} IN
    [n \in FileNames |->
        IF n \in found THEN NoFile
        ELSE IF \E m \in found : OldNameOf(m) = n
             THEN f[CHOOSE m \in found : OldNameOf(m) = n]
             ELSE f[n]]

\* move_old without its first loop.
move_old_KeepsOldFiles(f, e) == rename_to_old(f, e)

\* ToolOutputPath::move_old of the path with extension e
move_old(f, e) == rename_to_old(remove_old_files(f, e), e)

\* ToolConfigs::run: output_path.init(); log_path.init();
init_paths(f) == move_old(move_old(f, "out"), "log")

\* CallgrindOutput::create and run_bench of lib.rs:
\* if output.file.exists() { std::fs::copy(&output.file, old_output.file) }
copy_to_old(f) == IF Exists(f, Out) THEN [f EXCEPT ![OutOld] = f[Out]] ELSE f

\* No comparison was made.
NotCompared == [run |-> 0, new |-> NoFile, old |-> NoFile, baseline |-> NoFile]

\* No benchmark is being run.
IdleRotate ==
    /\ rotation = "none"
    /\ fs = [n \in FileNames |-> NoFile]
    /\ step = "idle"
    /\ run_id = 0
    /\ fs_before = [n \in FileNames |-> NoFile]
    /\ last_success = 0
    /\ failed = {}
    /\ compared = NotCompared

(***************************************************************************)
(* Names of output files.  A string is the sequence of its characters.     *)
(***************************************************************************)
\* What sanitize_filename replaces: / ? < > \ : * | "
IllegalChars == {"/", "?", "<", ">", ":", "*", "|"}

\* The names Windows reserves (con, prn, aux, nul, com0.., lpt0..).
WindowsReserved == {<<"c", "o", "n">>, <<"n", "u", "l">>, <<"a", "u", "x">>}

\* ^(con|prn|aux|nul|com[0-9]|lpt[0-9])(\..*)?$
IsWindowsReserved(s) ==
    \E w \in WindowsReserved :
        /\ IsPrefix(w, s)
        /\ Len(s) > Len(w) => s[Len(w) + 1] = "."

\* ^\.+$
IsReserved(s) == Len(s) > 0 /\ \A i \in 1..Len(s) : s[i] = "."

\* [\. ]+$ : the length of s without its trailing dots and spaces
TrimmedLen(s) ==
    LET keep == {i \in 1..Len(s) : s[i] \notin {".", " "}} IN
    IF keep = {} THEN 0 ELSE CHOOSE i \in keep : \A j \in keep : j <= i

\* The longest file name sanitize_filename leaves with truncate: true.
SanitizeMaxLen == 255

\* The longest name CallgrindOutput::create puts between callgrind. and .out
OutNameMaxLen == 237

ReplaceIllegal(s) == [i \in 1..Len(s) |-> IF s[i] \in IllegalChars THEN "_" ELSE s[i]]

ReplaceReserved(s) == IF IsReserved(s) THEN <<"_">> ELSE s

ReplaceWindowsReserved(s) == IF IsWindowsReserved(s) THEN <<"_">> ELSE s

ReplaceWindowsTrailing(s) ==
    IF TrimmedLen(s) < Len(s) THEN Take(s, TrimmedLen(s)) \o <<"_">> ELSE s

\* sanitize_filename::sanitize_with_options(name, Options { windows, truncate, replacement: "_" })
sanitize_with_options(name, windows, truncate) ==
    LET plain == ReplaceReserved(ReplaceIllegal(name))
        win == IF windows THEN ReplaceWindowsTrailing(ReplaceWindowsReserved(plain)) ELSE plain
    IN IF truncate THEN Take(win, SanitizeMaxLen) ELSE win

\* The bytes of a string: a character of one byte is itself, a longer one is a leading
\* byte followed by continuation bytes.
ContinuationByte == "10xxxxxx"

LeadingByte(w) == <<"0xxxxxxx", "110xxxxx", "1110xxxx", "11110xxx">>[w]

\* str::is_char_boundary(i): i is 0, the length, or the index of a byte that does not
\* continue a character (the indexes of the code start at 0)
is_char_boundary(s, i) ==
    \/ i = 0
    \/ i = Len(s)
    \/ i < Len(s) /\ s[i + 1] # ContinuationByte

\* a truncation that cuts at the n-th byte, wherever it falls
truncate_str_utf8_AtTheByte(s, n) == Take(s, n)

\* truncate_str_utf8(s, n): the longest prefix of whole characters of s that is at most
\* n bytes long
truncate_str_utf8(s, n) ==
    LET ends == {i \in 0..Len(s) : i <= n /\ is_char_boundary(s, i)}
    IN Take(s, CHOOSE i \in ends : \A j \in ends : j <= i)

\* args.join(" ")
RECURSIVE join(_)
join(args) ==
    IF Len(args) = 0 THEN <<>>
    ELSE IF Len(args) = 1 THEN args[1]
    ELSE args[1] \o <<" ">> \o join(Tail(args))

Digits == <<"0", "1", "2", "3", "4", "5", "6", "7", "8", "9">>

\* usize::to_string
RECURSIVE to_string(_)
to_string(n) ==
    IF n < 10 THEN <<Digits[n + 1]>>
    ELSE to_string(n \div 10) \o <<Digits[(n % 10) + 1]>>

BinBench(id, o, args) == [id |-> id, orig |-> o, args |-> args]

\* BinBench::sanitized_file_name
sanitized_file_name(b) ==
    sanitize_with_options(
        IF Len(b.args) # 0 THEN b.orig \o <<".">> \o join(b.args) ELSE b.orig,
        TRUE, TRUE)

\* BinBench::run: &format!("{}.{}", self.id, self.sanitized_file_name())
output_name(b) == b.id \o <<".">> \o sanitized_file_name(b)

\* CallgrindOutput::create: the name between callgrind. and .out
create_file_name(name) ==
    truncate_str_utf8(sanitize_with_options(name, FALSE, FALSE), OutNameMaxLen)

\* args.id: None
None == <<"None">>

\* parse_runs: if let Some(id) = args.id { id } else { counter.to_string(); counter += 1 }
\* An id Some(s) is <<"Some">> \o s.
parse_runs_id(id, c) ==
    IF id # None THEN [id |-> Tail(id), counter |-> c]
    ELSE [id |-> to_string(c), counter |-> c + 1]

\* No binary benchmark file is being run.
IdleNames ==
    /\ name_step = "none"
    /\ orig = <<>>
    /\ counter = 0
    /\ benches = <<>>
    /\ created = <<>>

(***************************************************************************)
(* The steps of run of bin_bench.rs.                                       *)
(***************************************************************************)
AssistantKinds == {"before", "setup", "teardown", "after"}

\* Option<Assistant>: None, or Some(Assistant { bench, .. })
NoAssistant == [present |-> FALSE, bench |-> FALSE]
Assistant(bench) == [present |-> TRUE, bench |-> bench]

Position(kind, index) == [kind |-> kind, index |-> index]

\* The step run goes to after step p, with teardown and the benchmark
\* in each other's place.
NextPosition_TeardownFirst(p, n) ==
    CASE p.kind = "start" -> Position("before", 0)
      [] p.kind = "before" -> IF n > 0 THEN Position("setup", 1) ELSE Position("after", 0)
      [] p.kind = "setup" -> Position("teardown", p.index)
      [] p.kind = "teardown" -> Position("bench", p.index)
      [] p.kind = "bench" ->
            IF p.index < n THEN Position("setup", p.index + 1) ELSE Position("after", 0)
      [] OTHER -> Position("end", 0)

\* The step run goes to after step p, n being the number of benchmarks.
NextPosition(p, n) ==
    CASE p.kind = "start" -> Position("before", 0)
      [] p.kind = "before" -> IF n > 0 THEN Position("setup", 1) ELSE Position("after", 0)
      [] p.kind = "setup" -> Position("bench", p.index)
      [] p.kind = "bench" -> Position("teardown", p.index)
      [] p.kind = "teardown" ->
            IF p.index < n THEN Position("setup", p.index + 1) ELSE Position("after", 0)
      [] OTHER -> Position("end", 0)

\* An event of a child process: it started, or it ended with success or not.
Event_of(p, ev, how, ok) == [step |-> p, ev |-> ev, how |-> how, ok |-> ok]

\* No error was returned.
NoError == [step |-> Position("none", 0), kind |-> "none"]

\* IaiCallgrindError::LaunchError (the process could not be started) and
\* IaiCallgrindError::BenchmarkLaunchError (it ended without success)
ErrorKinds == {"LaunchError", "BenchmarkLaunchError"}

\* What a step that ended leaves: the step run goes to, and what run has
\* returned.  Variant: run goes on with the next step after any error.
AfterStep_GoesOn(p, outcome, n) ==
    [position |-> NextPosition(p, n), result |-> "none", error |-> NoError]

\* step.run(&config)?: Ok(()) goes on with the next step, Err(e) returns e.
AfterStep(p, outcome, n) ==
    IF outcome = "Ok"
    THEN [position |-> NextPosition(p, n), result |-> "none", error |-> NoError]
    ELSE [position |-> Position("end", 0), result |-> "Err",
          error |-> [step |-> p, kind |-> outcome]]

\* run has not been called.
IdleOrch ==
    /\ assists = [k \in AssistantKinds |-> NoAssistant]
    /\ n_benches = 0
    /\ position = Position("none", 0)
    /\ running = FALSE
    /\ log = <<>>
    /\ result = "none"
    /\ error = NoError

(***************************************************************************)
(* The exit status of the subprocess and the exit_with policy.             *)
(***************************************************************************)
\* ExitStatus: the process exited with a code, or a signal ended it and
\* ExitStatus::code() is None.
Exited(code) == [exited |-> TRUE, code |-> code]
Signaled(signal) == [exited |-> FALSE, code |-> signal]

\* Option<ExitWith>
NoExitWith == [policy |-> "None", code |-> 0]
ExitWith_Success == [policy |-> "Success", code |-> 0]
ExitWith_Failure == [policy |-> "Failure", code |-> 0]
ExitWith_Code(c) == [policy |-> "Code", code |-> c]

\* Result of the check: Ok(output), Err(error) with the output the error
\* carries, or a panic.
CheckOk(output) == [state |-> "Ok", error |-> "none", output |-> output]
CheckErr(kind, output) == [state |-> "Err", error |-> kind, output |-> output]
CheckPanic == [state |-> "panic", error |-> "none", output |-> "none"]
NotChecked == [state |-> "none", error |-> "none", output |-> "none"]

\* The arms of the match of check_exit with the arm
\* (_, Some(ExitWith::Failure)) => Ok(..) put first.
match_exit_FailureArmFirst(code, with) ==
    IF with.policy = "Failure" THEN TRUE
    ELSE IF code = 0 /\ (with.policy \in {"None", "Success"}
                         \/ (with.policy = "Code" /\ with.code = 0)) THEN TRUE
    ELSE IF code = 0 /\ with.policy = "Code" THEN FALSE
    ELSE IF with.policy = "Success" THEN FALSE
    ELSE IF with.policy = "Code" /\ code = with.code THEN TRUE
    ELSE FALSE

\* match (status_code, exit_with) { .. }: the arms in their order; TRUE for
\* an arm that returns Ok, FALSE for one that returns Err.
match_exit(code, with) ==
    IF code = 0 /\ (with.policy \in {"None", "Success"}
                    \/ (with.policy = "Code" /\ with.code = 0)) THEN TRUE
    ELSE IF code = 0 /\ with.policy = "Code" THEN FALSE
    ELSE IF code = 0 /\ with.policy = "Failure" THEN FALSE
    ELSE IF with.policy = "Failure" THEN TRUE
    ELSE IF with.policy = "Success" THEN FALSE
    ELSE IF with.policy = "Code" /\ code = with.code THEN TRUE
    ELSE IF with.policy = "Code" THEN FALSE
    ELSE FALSE

\* CallgrindCommand::check_exit: match (output.status.code().unwrap(), exit_with)
CallgrindCommand_check_exit(output, with) ==
    IF ~output.status.exited THEN CheckPanic
    ELSE IF match_exit(output.status.code, with) THEN CheckOk(output)
    ELSE CheckErr("BenchmarkLaunchError", output)

\* check_exit of tool/mod.rs
check_exit(output, with) ==
    IF ~output.status.exited THEN CheckErr("ProcessError", output)
    ELSE IF match_exit(output.status.code, with) THEN CheckOk(output)
    ELSE CheckErr("ProcessError", output)

\* std::process::Output: the status and what was captured of stdout, stderr
Output(status) == [status |-> status, captured |-> "stdout and stderr"]
NoOutput == [status |-> Exited(0), captured |-> "none"]

\* No subprocess is being checked.
IdleExit ==
    /\ exit_impl = "none"
    /\ exit_with = NoExitWith
    /\ exit_step = "none"
    /\ exit_output = NoOutput
    /\ exit_result = NotChecked

(***************************************************************************)
(* The arguments of callgrind.  An argument is <<prefix, value>>, the      *)
(* prefix up to and with its "=", or <<word>> for one without "=".         *)
(***************************************************************************)
Arg(prefix, value) == <<prefix, value>>

\* arg.starts_with(prefix), for a prefix that ends with "="
starts_with(arg, prefix) == Len(arg) = 2 /\ arg[1] = prefix

\* a.starts_with("--"): every word of the model but "foo" does
starts_with_dashes(arg) == arg[1] # "foo"

\* a == "--bench"
is_bench(arg) == arg = <<"--bench">>

\* impl Default for CallgrindArgs
CallgrindArgs_default ==
    [i1 |-> Arg("--I1=", "32768,8,64"),
     d1 |-> Arg("--D1=", "32768,8,64"),
     ll |-> Arg("--LL=", "8388608,16,64"),
     cache_sim |-> Arg("--cache-sim=", "yes"),
     collect_atstart |-> Arg("--collect-atstart=", "no"),
     other |-> <<>>,
     toggle_collect |-> <<>>,
     inserted_toggle |-> <<>>,
     compress_strings |-> Arg("--compress-strings=", "no"),
     compress_pos |-> Arg("--compress-pos=", "no"),
     callgrind_out_file |-> <<>>]

\* One iteration of the loop of from_args with --cache-sim= taken from the
\* user.
from_args_arg_TakesCacheSim(cg, arg) ==
    IF starts_with(arg, "--I1=") THEN [cg EXCEPT !.i1 = arg]
    ELSE IF starts_with(arg, "--D1=") THEN [cg EXCEPT !.d1 = arg]
    ELSE IF starts_with(arg, "--LL=") THEN [cg EXCEPT !.ll = arg]
    ELSE IF starts_with(arg, "--cache-sim=") THEN [cg EXCEPT !.cache_sim = arg]
    ELSE IF starts_with(arg, "--collect-atstart=") THEN [cg EXCEPT !.collect_atstart = arg]
    ELSE IF starts_with(arg, "--compress-strings=") THEN [cg EXCEPT !.compress_strings = arg]
    ELSE IF starts_with(arg, "--compress-pos=") THEN [cg EXCEPT !.compress_pos = arg]
    ELSE IF starts_with(arg, "--toggle-collect=")
         THEN [cg EXCEPT !.toggle_collect = Append(@, arg)]
    ELSE IF starts_with(arg, "--callgrind-out-file=") THEN cg
    ELSE [cg EXCEPT !.other = Append(@, arg)]

\* One iteration of the loop of from_args with the first occurrence of
\* --I1= kept.
from_args_arg_FirstWins(cg, arg) ==
    IF starts_with(arg, "--I1=")
    THEN IF cg.i1 = CallgrindArgs_default.i1 THEN [cg EXCEPT !.i1 = arg] ELSE cg
    ELSE IF starts_with(arg, "--D1=") THEN [cg EXCEPT !.d1 = arg]
    ELSE IF starts_with(arg, "--LL=") THEN [cg EXCEPT !.ll = arg]
    ELSE IF starts_with(arg, "--cache-sim=") THEN cg
    ELSE IF starts_with(arg, "--collect-atstart=") THEN [cg EXCEPT !.collect_atstart = arg]
    ELSE IF starts_with(arg, "--compress-strings=") THEN [cg EXCEPT !.compress_strings = arg]
    ELSE IF starts_with(arg, "--compress-pos=") THEN [cg EXCEPT !.compress_pos = arg]
    ELSE IF starts_with(arg, "--toggle-collect=")
         THEN [cg EXCEPT !.toggle_collect = Append(@, arg)]
    ELSE IF starts_with(arg, "--callgrind-out-file=") THEN cg
    ELSE [cg EXCEPT !.other = Append(@, arg)]

\* One iteration of the loop of CallgrindArgs::from_args
from_args_arg(cg, arg) ==
    IF starts_with(arg, "--I1=") THEN [cg EXCEPT !.i1 = arg]
    ELSE IF starts_with(arg, "--D1=") THEN [cg EXCEPT !.d1 = arg]
    ELSE IF starts_with(arg, "--LL=") THEN [cg EXCEPT !.ll = arg]
    ELSE IF starts_with(arg, "--cache-sim=") THEN cg
    ELSE IF starts_with(arg, "--collect-atstart=") THEN [cg EXCEPT !.collect_atstart = arg]
    ELSE IF starts_with(arg, "--compress-strings=") THEN [cg EXCEPT !.compress_strings = arg]
    ELSE IF starts_with(arg, "--compress-pos=") THEN [cg EXCEPT !.compress_pos = arg]
    ELSE IF starts_with(arg, "--toggle-collect=")
         THEN [cg EXCEPT !.toggle_collect = Append(@, arg)]
    ELSE IF starts_with(arg, "--callgrind-out-file=") THEN cg
    ELSE [cg EXCEPT !.other = Append(@, arg)]

\* CallgrindArgs::from_args: for arg in args.iter() { .. } from
\* Self::default()
RECURSIVE from_args_loop(_, _)
from_args_loop(cg, args) ==
    IF Len(args) = 0 THEN cg
    ELSE from_args_loop(from_args_arg(cg, Head(args)), Tail(args))

from_args(args) == from_args_loop(CallgrindArgs_default, args)

\* args_iter.filter(|a| a.starts_with("--"))
filter_dashes(args) == SelectSeq(args, starts_with_dashes)

\* if callgrind_args.last().map_or(false, |a| a == "--bench") { callgrind_args.pop(); }
strip_bench(args) ==
    IF Len(args) > 0 /\ is_bench(args[Len(args)])
    THEN SubSeq(args, 1, Len(args) - 1)
    ELSE args

\* format!("--callgrind-out-file={}", output_file.display())
OutFileArg == Arg("--callgrind-out-file=", "target/iai/callgrind.out")

\* format!("--toggle-collect=*{}::{}", module, function_name)
ToggleArg(pattern) == Arg("--toggle-collect=", pattern)

\* parse_with with the toggles put before the output file.
parse_with_TogglesFirst(cg, toggle) ==
    <<cg.i1, cg.d1, cg.ll, cg.cache_sim, cg.collect_atstart, cg.compress_strings,
      cg.compress_pos>>
    \o cg.other \o <<toggle>> \o cg.toggle_collect
    \o <<IF cg.callgrind_out_file # <<>> THEN cg.callgrind_out_file ELSE OutFileArg>>

\* CallgrindArgs::parse_with(output_file, module, function_name)
parse_with(cg, toggle) ==
    <<cg.i1, cg.d1, cg.ll, cg.cache_sim, cg.collect_atstart, cg.compress_strings,
      cg.compress_pos>>
    \o cg.other
    \o <<IF cg.callgrind_out_file # <<>> THEN cg.callgrind_out_file ELSE OutFileArg>>
    \o <<toggle>> \o cg.toggle_collect

\* callgrind_args.insert_toggle_collect(entry_point): the toggle of the
\* runner, kept apart from the toggles of the user
insert_toggle_collect(cg, pattern) ==
    [cg EXCEPT !.inserted_toggle = Append(@, ToggleArg(pattern))]

\* callgrind_args.set_output_file(output_file)
set_output_file(cg, path) == [cg EXCEPT !.callgrind_out_file = path]

\* callgrind_args.collect_atstart = value
set_collect_atstart(cg, value) ==
    [cg EXCEPT !.collect_atstart =
        Arg("--collect-atstart=", IF value THEN "yes" ELSE "no")]

\* callgrind_args.to_vec()
to_vec(cg) ==
    <<cg.i1, cg.d1, cg.ll, cg.cache_sim, cg.collect_atstart, cg.compress_strings,
      cg.compress_pos>>
    \o cg.other \o <<cg.callgrind_out_file>>
    \o cg.inserted_toggle \o cg.toggle_collect

\* self.opts.entry_point: None
NoEntryPoint == "None"

\* self.opts.entry_point of the k-th benchmark, when it has one
EntryPoint(k) == <<"main_1", "main_2", "main_3", "main_4">>[k]

\* format!("*{}::{}", module, function_name) of the k-th benchmark
FunctionPattern(k) ==
    <<"*module::bench_1", "*module::bench_2", "*module::bench_3", "*module::bench_4">>[k]

\* BinBench::run with the arguments of the configuration changed in place
\* instead of a clone.
BinBench_run_args_NoClone(config_args, entry_point) ==
    LET withEntry == IF entry_point # NoEntryPoint
                     THEN insert_toggle_collect(set_collect_atstart(config_args, FALSE),
                                                entry_point)
                     ELSE set_collect_atstart(config_args, TRUE)
    IN  [config |-> withEntry, argv |-> to_vec(set_output_file(withEntry, OutFileArg))]

\* The arguments BinBench::run and CallgrindCommand::run make of the
\* arguments of the configuration: what is left in the configuration, and
\* the vector given to the command.
BinBench_run_args(config_args, entry_point) ==
    LET withEntry == IF entry_point # NoEntryPoint
                     THEN insert_toggle_collect(set_collect_atstart(config_args, FALSE),
                                                entry_point)
                     ELSE set_collect_atstart(config_args, TRUE)
    IN  [config |-> config_args, argv |-> to_vec(set_output_file(withEntry, OutFileArg))]

IdleArgs ==
    /\ args_impl = "none"
    /\ raw_args = <<>>
    /\ args_step = "idle"
    /\ arg_list = <<>>
    /\ callgrind_args = CallgrindArgs_default
    /\ bench_argv = <<>>

\* Costs without an event, and Option<T>: None is <<>>, Some(x) is <<x>>.
EmptyCosts == <<>>
Some(x) == <<x>>

IdleDiff ==
    /\ new_costs = EmptyCosts
    /\ old_costs = <<>>
    /\ summary_step = "idle"
    /\ costs_summary = <<>>

\* String::new().normal(): nothing is printed after the value
NoDelta == [text |-> <<>>, color |-> "normal", pct |-> <<>>]

IdlePrint ==
    /\ print_new = 0
    /\ print_old = <<>>
    /\ print_step = "idle"
    /\ print_delta = NoDelta

IdleReg ==
    /\ is_regressed = FALSE
    /\ reg_error = "none"
    /\ reg_log = <<>>

IdleTotals ==
    /\ totals_file = <<>>
    /\ totals_step = "idle"
    /\ totals_stats = [phase |-> "none", counters |-> ZeroCounters]

IdlePath ==
    /\ path_impl = "none"
    /\ path_tool = 0
    /\ path_name = <<>>
    /\ path_step = "idle"
    /\ path_files = [file |-> <<>>, old |-> <<>>]

IdleFormulas ==
    /\ both_counters = ZeroCounters
    /\ both_step = "idle"
    /\ both_summaries = <<>>

IdleHarness ==
    /\ benchmarks = <<>>
    /\ started_by = "none"
    /\ runner_args = <<>>
    /\ runner_step = "idle"
    /\ scanned = 0
    /\ config = <<>>
    /\ bench_index = 0
    /\ iai_runs = <<>>
    /\ runner_starts = 0

IdleLogfile ==
    /\ log_lines = <<>>
    /\ log_step = "idle"
    /\ log_summary = <<>>

IdleRace ==
    /\ race_fs = <<>>
    /\ race_pc = <<>>
    /\ race_list = <<>>
    /\ race_prior = <<>>
    /\ race_compared = <<>>
    /\ race_missed = <<>>
    /\ race_taken = <<>>
    /\ race_overlap = FALSE

\* The parts that follow the twelve above are at rest.
IdleLast == IdleFormulas /\ IdleHarness /\ IdleLogfile /\ IdleRace


\* The parts that follow the eight above are at rest.
IdleNewer == IdlePrint /\ IdleReg /\ IdleTotals /\ IdlePath /\ IdleLast

\* The parts that follow the five above are at rest.
IdleLater == IdleExit /\ IdleArgs /\ IdleDiff /\ IdleNewer

(***************************************************************************)
(* One iteration of the line loop of parse_callgrind_output: the new flags *)
(* and whether the line's counters are added.                              *)
(***************************************************************************)
Flags(sr, mc, sc, add) ==
    [start_record |-> sr, maybe_counting |-> mc, start_counting |-> sc, add |-> add]

\* Variant: an empty line ends the counting and leaves the record open.
ResetOnEmpty_KeepsRecord(f, l) ==
    IF is_empty(l) THEN Flags(f.start_record, FALSE, FALSE, FALSE)
    ELSE Flags(f.start_record, f.maybe_counting, f.start_counting, FALSE)

\* if line.is_empty() { start_record = false; maybe_counting = false; start_counting = false; }
ResetOnEmpty(f, l) ==
    IF is_empty(l) THEN Flags(FALSE, FALSE, FALSE, FALSE)
    ELSE Flags(f.start_record, f.maybe_counting, f.start_counting, FALSE)

\* Variant: a cfn= line read while counting ends the counting of the record's
\* callees instead of opening the next sub-block.
parse_callgrind_output_line_CfnEndsCounting(f0, l, sentinel) ==
    LET f == ResetOnEmpty(f0, l) IN
    IF ~f.start_record THEN
        Flags(starts_with_sentinel(l, sentinel), f.maybe_counting, f.start_counting, FALSE)
    ELSE IF ~f.maybe_counting THEN
        Flags(TRUE, starts_with_cfn(l), f.start_counting, FALSE)
    ELSE IF ~f.start_counting THEN
        Flags(TRUE, TRUE, starts_with_calls(l), FALSE)
    ELSE IF starts_with_digit(l) THEN
        Flags(TRUE, TRUE, TRUE, TRUE)
    ELSE
        Flags(TRUE, FALSE, FALSE, FALSE)

parse_callgrind_output_line(f0, l, sentinel) ==
    LET f == ResetOnEmpty(f0, l) IN
    IF ~f.start_record THEN
        Flags(starts_with_sentinel(l, sentinel), f.maybe_counting, f.start_counting, FALSE)
    ELSE IF ~f.maybe_counting THEN
        Flags(TRUE, starts_with_cfn(l), f.start_counting, FALSE)
    ELSE IF ~f.start_counting THEN
        Flags(TRUE, TRUE, starts_with_calls(l), FALSE)
    ELSE IF starts_with_digit(l) THEN
        Flags(TRUE, TRUE, TRUE, TRUE)
    ELSE IF starts_with_cfn(l) THEN
        Flags(TRUE, TRUE, FALSE, FALSE)
    ELSE
        Flags(TRUE, FALSE, FALSE, FALSE)

(***************************************************************************)
(* One iteration of the line loop of CallgrindOutput::parse, which keeps   *)
(* start_record only (maybe_counting and start_counting stay false).       *)
(***************************************************************************)
\* if line.is_empty() { start_record = false; }
ResetRecordOnEmpty(f, l) ==
    Flags(f.start_record /\ ~is_empty(l), f.maybe_counting, f.start_counting, FALSE)

CallgrindOutput_parse_line(f0, l, sentinel) ==
    LET f == ResetRecordOnEmpty(f0, l) IN
    IF ~f.start_record THEN
        Flags(starts_with_sentinel(l, sentinel), f.maybe_counting, f.start_counting, FALSE)
    ELSE IF starts_with_digit(l) THEN
        Flags(TRUE, f.maybe_counting, f.start_counting, TRUE)
    ELSE
        Flags(TRUE, f.maybe_counting, f.start_counting, FALSE)

(***************************************************************************)
(* The cost model.  Unsigned arithmetic is that of the build: with         *)
(* overflow checks an operation that leaves 0..U64-1 panics, without them  *)
(* it wraps.                                                               *)
(***************************************************************************)
WAdd(a, b) == (a + b) % U64
WSub(a, b) == (a - b + U64) % U64
WMul(a, b) == (a * b) % U64
OAdd(a, b) == a + b >= U64
OSub(a, b) == a < b
OMul(a, b) == a * b >= U64

Ir(cs) == cs[1]
Dr(cs) == cs[2]
Dw(cs) == cs[3]
I1mr(cs) == cs[4]
D1mr(cs) == cs[5]
D1mw(cs) == cs[6]
ILmr(cs) == cs[7]
DLmr(cs) == cs[8]
DLmw(cs) == cs[9]

\* A summary; l1_hits is the field of callgrind/mod.rs, l1_data_hits the one
\* of lib.rs, and the field a formulation does not have is -1.  `asserted`
\* records that the computation evaluated assert!(total_memory_rw == ...).
Summary(state, asserted, instr, l1, l1_data, l3, ram, total, cycles) ==
    [state |-> state, asserted |-> asserted, instructions |-> instr,
     l1_hits |-> l1, l1_data_hits |-> l1_data, l3_hits |-> l3, ram_hits |-> ram,
     total_memory_rw |-> total, cycles |-> cycles]

NoSummary == Summary("none", FALSE, 0, 0, 0, 0, 0, 0, 0)
Panicked == Summary("panic", FALSE, 0, 0, 0, 0, 0, 0, 0)

\* let ram_hits = ILmr + DLmr + DLmw
ram_hits_of(cs) == WAdd(WAdd(ILmr(cs), DLmr(cs)), DLmw(cs))
ram_hits_overflows(cs) == OAdd(ILmr(cs), DLmr(cs)) \/ OAdd(WAdd(ILmr(cs), DLmr(cs)), DLmw(cs))

\* let l1_data_accesses = D1mr + D1mw; let l1_miss = I1mr + l1_data_accesses
l1_miss_of(cs) == WAdd(I1mr(cs), WAdd(D1mr(cs), D1mw(cs)))
l1_miss_overflows(cs) == OAdd(D1mr(cs), D1mw(cs)) \/ OAdd(I1mr(cs), WAdd(D1mr(cs), D1mw(cs)))

\* let l3_accesses = l1_miss; let l3_hits = l3_accesses - ram_hits
l3_hits_of(cs) == WSub(l1_miss_of(cs), ram_hits_of(cs))
l3_hits_overflows(cs) == OSub(l1_miss_of(cs), ram_hits_of(cs))

\* let total_memory_rw = Ir + Dr + Dw
total_memory_rw_of(cs) == WAdd(WAdd(Ir(cs), Dr(cs)), Dw(cs))
total_memory_rw_overflows(cs) == OAdd(Ir(cs), Dr(cs)) \/ OAdd(WAdd(Ir(cs), Dr(cs)), Dw(cs))

\* Variant: the last-level hits are not taken off the first-level hits.
l1_hits_of_KeepsL3Hits(cs) == WSub(total_memory_rw_of(cs), ram_hits_of(cs))

\* callgrind/mod.rs: let l1_hits = total_memory_rw - ram_hits - l3_hits
l1_hits_of(cs) == WSub(WSub(total_memory_rw_of(cs), ram_hits_of(cs)), l3_hits_of(cs))
l1_hits_overflows(cs) ==
    \/ OSub(total_memory_rw_of(cs), ram_hits_of(cs))
    \/ OSub(WSub(total_memory_rw_of(cs), ram_hits_of(cs)), l3_hits_of(cs))

\* callgrind/mod.rs: let cycles = l1_hits + (5 * l3_hits) + (35 * ram_hits)
cycles_of(l1, l3, ram) == WAdd(WAdd(l1, WMul(5, l3)), WMul(35, ram))
cycles_overflows(l1, l3, ram) ==
    \/ OMul(5, l3) \/ OMul(35, ram) \/ OAdd(l1, WMul(5, l3))
    \/ OAdd(WAdd(l1, WMul(5, l3)), WMul(35, ram))

\* CallgrindStats::summarize of callgrind/mod.rs
summarize(cs, overflow_checks) ==
    IF overflow_checks /\ (\/ ram_hits_overflows(cs) \/ l1_miss_overflows(cs)
                           \/ l3_hits_overflows(cs) \/ total_memory_rw_overflows(cs)
                           \/ l1_hits_overflows(cs)
                           \/ cycles_overflows(l1_hits_of(cs), l3_hits_of(cs), ram_hits_of(cs)))
    THEN Panicked
    ELSE Summary("summary", FALSE, Ir(cs), l1_hits_of(cs), -1, l3_hits_of(cs), ram_hits_of(cs),
                 total_memory_rw_of(cs),
                 cycles_of(l1_hits_of(cs), l3_hits_of(cs), ram_hits_of(cs)))

\* lib.rs: let l1_data_hits = total_memory_rw - Ir - (ram_hits + l3_hits)
l1_data_hits_of(cs) ==
    WSub(WSub(total_memory_rw_of(cs), Ir(cs)), WAdd(ram_hits_of(cs), l3_hits_of(cs)))
l1_data_hits_overflows(cs) ==
    \/ OSub(total_memory_rw_of(cs), Ir(cs))
    \/ OAdd(ram_hits_of(cs), l3_hits_of(cs))
    \/ OSub(WSub(total_memory_rw_of(cs), Ir(cs)), WAdd(ram_hits_of(cs), l3_hits_of(cs)))

\* lib.rs: assert!(total_memory_rw == l1_data_hits + Ir + l3_hits + ram_hits)
assert_total(cs) ==
    total_memory_rw_of(cs) =
        WAdd(WAdd(WAdd(l1_data_hits_of(cs), Ir(cs)), l3_hits_of(cs)), ram_hits_of(cs))
assert_total_overflows(cs) ==
    \/ OAdd(l1_data_hits_of(cs), Ir(cs))
    \/ OAdd(WAdd(l1_data_hits_of(cs), Ir(cs)), l3_hits_of(cs))
    \/ OAdd(WAdd(WAdd(l1_data_hits_of(cs), Ir(cs)), l3_hits_of(cs)), ram_hits_of(cs))

\* Variant: the cycles of lib.rs without the instructions.
lib_cycles_of_WithoutIr(cs) ==
    WAdd(WAdd(l1_data_hits_of(cs), WMul(5, l3_hits_of(cs))), WMul(35, ram_hits_of(cs)))

\* lib.rs: let cycles = Ir + l1_data_hits + (5 * l3_hits) + (35 * ram_hits)
lib_cycles_of(cs) ==
    WAdd(WAdd(WAdd(Ir(cs), l1_data_hits_of(cs)), WMul(5, l3_hits_of(cs))),
         WMul(35, ram_hits_of(cs)))
lib_cycles_overflows(cs) ==
    \/ OAdd(Ir(cs), l1_data_hits_of(cs))
    \/ OMul(5, l3_hits_of(cs)) \/ OMul(35, ram_hits_of(cs))
    \/ OAdd(WAdd(Ir(cs), l1_data_hits_of(cs)), WMul(5, l3_hits_of(cs)))
    \/ OAdd(WAdd(WAdd(Ir(cs), l1_data_hits_of(cs)), WMul(5, l3_hits_of(cs))),
            WMul(35, ram_hits_of(cs)))

\* CallgrindStats::summarize of lib.rs
lib_summarize(cs, overflow_checks) ==
    IF \/ overflow_checks /\ (\/ ram_hits_overflows(cs) \/ l1_miss_overflows(cs)
                              \/ l3_hits_overflows(cs) \/ total_memory_rw_overflows(cs)
                              \/ l1_data_hits_overflows(cs) \/ assert_total_overflows(cs)
                              \/ lib_cycles_overflows(cs))
       \/ ~assert_total(cs)
    THEN Panicked
    ELSE Summary("summary", TRUE, Ir(cs), -1, l1_data_hits_of(cs), l3_hits_of(cs),
                 ram_hits_of(cs), total_memory_rw_of(cs), lib_cycles_of(cs))

(***************************************************************************)
(* The callgrind output files the parsers are run on.                      *)
(***************************************************************************)
FnSentinel == FnLine(SentinelName)

\* Cost lines: the sentinel's own line and the callees' lines of the spec's
\* scenarios, a line with all nine counters, one with ten counters, one
\* with an instr and a line column, and one whose last-level misses exceed
\* its first-level misses.
OwnCost == CostLine(<<12, 4, 1, 0>>)
InnerCost == CostLine(<<14, 100, 20, 5>>)
Inner2Cost == CostLine(<<17, 50, 10, 2>>)
NineCost == CostLine(<<0, 12, 3, 6, 2, 1, 1, 1, 1, 0>>)
TenCost == CostLine(<<0, 1, 1, 1, 1, 1, 1, 1, 1, 1, 7>>)
InstrLineCost == CostLine(<<-16, 7, 1000, 200, 40>>)
MisslessCost == CostLine(<<3, 1, 0, 0, 0, 0, 0, 2, 0, 0>>)

CalleeCosts == {InnerCost, Inner2Cost, NineCost, TenCost, InstrLineCost, MisslessCost}

\* The lines short record bodies are built from.
LineAlphabet == {EmptyLine, FnSentinel, CfnLine, CallsLine, OtherLine, OwnCost}

ShortBodies == SeqsUpTo(LineAlphabet, MaxLines)

\* fn=<sentinel>, the sentinel's own cost lines, then cfn=/calls= sub-blocks.
Block(c) == <<CfnLine, CallsLine, c>>

OneBlockBodies ==
    {<<FnSentinel>> \o own \o Block(c) : own \in {<<>>, <<OwnCost>>}, c \in CalleeCosts}

TwoBlockBodies ==
    {<<FnSentinel>> \o own \o Block(c[1]) \o Block(c[2]) :
        own \in {<<>>, <<OwnCost>>}, c \in CalleeCosts \X CalleeCosts}

\* Two records of the sentinel, with a record of another function between them.
TwoRecordBodies ==
    {<<FnSentinel>> \o Block(c[1]) \o <<EmptyLine, FnLine(<<"my_mod", "inner">>), OwnCost,
       EmptyLine, FnSentinel>> \o Block(c[2]) : c \in {InnerCost, NineCost} \X {Inner2Cost}}

BlockBodies == OneBlockBodies \cup TwoBlockBodies \cup TwoRecordBodies

\* The name my_mod::bench_a_2 of another function: the string of the sentinel and the
\* characters that follow it.
LongerName == SentinelName \o <<"_2">>

\* A record of my_mod::bench_a_2, alone and after a record of the sentinel.
LongerNameBodies ==
    { <<FnLine(LongerName)>> \o Block(InnerCost),
      <<FnSentinel>> \o Block(InnerCost) \o <<EmptyLine, FnLine(LongerName)>> \o Block(Inner2Cost) }

\* A sub-block that is cut by a line which is neither a cost line nor cfn=
\* nor calls=: before its calls= line, and after its first cost line, with
\* or without a new sub-block behind it.
PausedBodies ==
    { <<FnSentinel, CfnLine, OtherLine, CallsLine, InnerCost>>,
      <<FnSentinel, CfnLine, CallsLine, InnerCost, OtherLine, Inner2Cost>>,
      <<FnSentinel>> \o Block(InnerCost) \o <<OtherLine>> \o Block(Inner2Cost) }

Header(m) == <<FormatLine, EventsLine, PositionsLine(m)>>
\* A file without the "# callgrind format" line.
HeaderlessHeader == <<EventsLine, PositionsLine("line")>>

Files ==
    {Header(m) \o b : m \in {"line", "instr line"}, b \in ShortBodies}
    \cup {Header(m) \o b : m \in {"line", "instr", "instr line", "line instr"}, b \in BlockBodies}
    \cup {HeaderlessHeader \o b : b \in OneBlockBodies}
    \cup {<<PositionsLine("line")>> \o b : b \in OneBlockBodies}
    \cup OneBlockBodies
    \cup {Header("line") \o b : b \in PausedBodies}
    \cup {Header("line") \o b : b \in LongerNameBodies}
    \cup {<<>>, <<EmptyLine>>, <<FormatLine>>, <<FormatLine, EventsLine>>}

Parsers == {"parse_callgrind_output", "CallgrindOutput_parse"}

(***************************************************************************)
(* The parsing functions, one step per use of the line iterator.           *)
(***************************************************************************)
InitParse ==
    /\ parser \in Parsers
    /\ file \in Files
    /\ pos = 0
    /\ phase = "first"
    /\ warned = FALSE
    /\ mode = "None"
    /\ start_record = FALSE
    /\ maybe_counting = FALSE
    /\ start_counting = FALSE
    /\ counters = ZeroCounters
    /\ counted = {}
    /\ summary = NoSummary
    /\ IdleCosts
    /\ IdleRotate
    /\ IdleNames
    /\ IdleOrch
    /\ IdleLater

NonEmpty(l) == ~is_empty(l)
HasPositionsMode(l) == from_positions_line(l) # "None"

\* iter.find(|l| !l.trim().is_empty()): the first non-empty line after `from`.
FirstNonEmpty(from) ==
    FirstOf({i \in (from + 1)..Len(file) : NonEmpty(file[i])})

\* iter.find_map(PositionsMode::from_positions_line): the first line after
\* `from` that declares the positions.
FirstPositionsLine(from) ==
    FirstOf({i \in (from + 1)..Len(file) : HasPositionsMode(file[i])})

\* iter.by_ref().find(|l| !l.trim().is_empty()).expect("Found empty file")
\*     .contains("callgrind format")
FindFirstLine ==
    /\ phase = "first"
    /\ LET i == FirstNonEmpty(pos) IN
       IF i = 0
       THEN /\ phase' = "panicked"
            /\ pos' = Len(file)
            /\ warned' = warned
       ELSE /\ phase' = IF parser = "CallgrindOutput_parse" THEN "positions" ELSE "lines"
            /\ pos' = i
            /\ warned' = ~contains_callgrind_format(file[i])
    /\ UNCHANGED <<notParseVars, parser, file, mode, start_record, maybe_counting, start_counting,
                   counters, counted, summary>>

\* iter.find_map(|line| PositionsMode::from_positions_line(&line))
\*     .expect("Callgrind output line with mode for positions")
FindPositionsMode ==
    /\ phase = "positions"
    /\ LET i == FirstPositionsLine(pos) IN
       IF i = 0
       THEN /\ phase' = "panicked"
            /\ pos' = Len(file)
            /\ mode' = mode
       ELSE /\ phase' = "lines"
            /\ pos' = i
            /\ mode' = from_positions_line(file[i])
    /\ UNCHANGED <<notParseVars, parser, file, warned, start_record, maybe_counting, start_counting,
                   counters, counted, summary>>

CurrentFlags == Flags(start_record, maybe_counting, start_counting, FALSE)

\* The effect of one loop iteration with the new flags f and the counter
\* columns nums of the line.
LineEffect(f, nums) ==
    /\ pos' = pos + 1
    /\ start_record' = f.start_record
    /\ maybe_counting' = f.maybe_counting
    /\ start_counting' = f.start_counting
    /\ IF f.add /\ ParsePanics(nums)
       THEN /\ phase' = "panicked"
            /\ UNCHANGED <<counters, counted>>
       ELSE /\ phase' = phase
            /\ counters' = IF f.add THEN AddCounters(counters, nums) ELSE counters
            /\ counted' = IF f.add THEN counted \cup {pos + 1} ELSE counted
    /\ UNCHANGED <<notParseVars, parser, file, warned, mode, summary>>

\* parse_callgrind_output: for line in iter { ... }
ParseCallgrindOutputLine ==
    /\ phase = "lines"
    /\ parser = "parse_callgrind_output"
    /\ pos < Len(file)
    /\ LineEffect(parse_callgrind_output_line(CurrentFlags, file[pos + 1], SentinelName),
                  CounterColumns(file[pos + 1].cols, SkipLineNumber))

\* CallgrindOutput::parse: for line in iter { ... }
CallgrindOutputParseLine ==
    /\ phase = "lines"
    /\ parser = "CallgrindOutput_parse"
    /\ pos < Len(file)
    /\ LineEffect(CallgrindOutput_parse_line(CurrentFlags, file[pos + 1], SentinelName),
                  CounterColumns(file[pos + 1].cols, SkipPositions(mode)))

\* The end of the file ends the loop: CallgrindStats { ... } is returned.
ReturnStats ==
    /\ phase = "lines"
    /\ pos = Len(file)
    /\ phase' = "parsed"
    /\ UNCHANGED <<notParseVars, parser, file, pos, warned, mode, start_record, maybe_counting,
                   start_counting, counters, counted, summary>>

\* CallgrindStats::print: let summary = self.summarize()
Summarize ==
    /\ phase = "parsed"
    /\ \E overflow_checks \in BOOLEAN :
           summary' = IF parser = "parse_callgrind_output"
                      THEN lib_summarize(counters, overflow_checks)
                      ELSE summarize(counters, overflow_checks)
    /\ phase' = "summarized"
    /\ UNCHANGED <<notParseVars, parser, file, pos, warned, mode, start_record, maybe_counting,
                   start_counting, counters, counted>>

NextParse ==
    \/ FindFirstLine
    \/ FindPositionsMode
    \/ ParseCallgrindOutputLine
    \/ CallgrindOutputParseLine
    \/ ReturnStats
    \/ Summarize

SpecParse == InitParse /\ [][NextParse]_vars

(***************************************************************************)
(* Properties of the parsers.  They are stated on the file, the history    *)
(* `counted` and the result, with definitions of their own.                *)
(***************************************************************************)
ParseReturned == phase \in {"parsed", "summarized"}

\* The index of the last header line: the line loop starts after it.
LoopStart ==
    LET first == FirstNonEmpty(0) IN
    IF parser = "parse_callgrind_output" \/ first = 0 THEN first
    ELSE FirstPositionsLine(first)

IsSentinelFn(l) == l.kind = "fn" /\ IsPrefix(SentinelName, l.name)

NoBlankIn(a, b) == \A j \in a..b : file[j].kind # "empty"

\* Line i lies in a record of the sentinel that starts at line f.
InRecordOf(f, i) == LoopStart < f /\ f < i /\ IsSentinelFn(file[f]) /\ NoBlankIn(f, i)

InSentinelRecord(i) == \E f \in 1..i : InRecordOf(f, i)

\* Line i follows a cfn= line and then a calls= line of the sentinel's record.
FollowsCfnAndCalls(i) ==
    \E f, c, k \in 1..i :
        /\ InRecordOf(f, i)
        /\ f < c /\ c < k /\ k < i
        /\ file[c].kind = "cfn"
        /\ file[k].kind = "calls"

\* The counters of a cost line after n position columns, missing ones as 0.
CostsOf(l, n) ==
    [e \in 1..NumCounters |-> IF e + n <= Len(l.cols) THEN l.cols[e + n] ELSE 0]

RECURSIVE SumCosts(_, _)
SumCosts(I, n) ==
    IF I = {} THEN ZeroCounters
    ELSE LET i == CHOOSE x \in I : TRUE
             rest == SumCosts(I \ {i}, n)
         IN [e \in 1..NumCounters |-> (rest[e] + CostsOf(file[i], n)[e]) % U64]

Counters3(a, b, c) == [e \in 1..NumCounters |-> IF e = 1 THEN a ELSE IF e = 2 THEN b
                                                 ELSE IF e = 3 THEN c ELSE 0]

\* The scenarios of the spec.
OneCalleeFile == Header("line") \o <<FnSentinel, OwnCost>> \o Block(InnerCost)
TwoCalleesFile == OneCalleeFile \o Block(Inner2Cost)
InstrLineFile == Header("instr line") \o <<FnSentinel>> \o Block(InstrLineCost)

\* C1: only cost lines that follow a cfn= and then a calls= line inside the
\* sentinel's record are counted; a file without a cfn= line yields all
\* zeros, and the one-callee scenario yields Ir=100, Dr=20, Dw=5.
C1_OnlyCalleeCostsCounted ==
    /\ \A i \in counted : FollowsCfnAndCalls(i)
    /\ ParseReturned /\ (\A i \in 1..Len(file) : file[i].kind # "cfn")
           => counters = ZeroCounters
    /\ ParseReturned /\ file = OneCalleeFile => counters = Counters3(100, 20, 5)

\* C1 restricted to parse_callgrind_output, which it holds of.
C1_HoldsOfParseCallgrindOutput ==
    parser = "parse_callgrind_output" => C1_OnlyCalleeCostsCounted

BlockFiles == {Header(m) \o b : m \in {"line", "instr"}, b \in BlockBodies}

\* The cost lines of the sub-blocks: those behind a calls= line of a
\* record of the sentinel.
SubBlockCostLines ==
    {i \in 1..Len(file) : file[i].kind = "cost" /\ FollowsCfnAndCalls(i)}

\* C2: for a sentinel record with several cfn=/calls= sub-blocks the result
\* is the elementwise sum of the cost lines of all sub-blocks; a cfn= line
\* read inside the record leaves the parser waiting for calls= (SAW_CFN),
\* and the two-callee scenario yields Ir=150, Dr=30, Dw=7.
C2_SubBlocksSummed ==
    parser = "parse_callgrind_output" =>
        /\ ParseReturned /\ file \in BlockFiles => counters = SumCosts(SubBlockCostLines, 1)
        /\ ParseReturned /\ file = TwoCalleesFile => counters = Counters3(150, 30, 7)
        /\ phase = "lines" /\ pos > LoopStart /\ file[pos].kind = "cfn" /\ start_record
               => maybe_counting /\ ~start_counting

C2_Witness ==
    /\ parser = "parse_callgrind_output"
    /\ ParseReturned
    /\ file = TwoCalleesFile
    /\ counters = Counters3(150, 30, 7)
    /\ Cardinality(counted) = 2

\* The number of position columns the file declares.
DeclaredColumns ==
    IF \E i \in 1..Len(file) : file[i].kind = "positions"
                               /\ file[i].mode \in {"instr line", "line instr"}
    THEN 2 ELSE 1

\* C3: on every counted cost line exactly one leading column is skipped
\* under positions: line or instr and exactly two under instr line or line
\* instr, and the rest is added column-wise from the first event on; the
\* instr line scenario yields Ir=1000, Dr=200, Dw=40.
C3_PositionColumnsSkipped ==
    /\ phase # "panicked" => counters = SumCosts(counted, DeclaredColumns)
    /\ ParseReturned /\ file = InstrLineFile => counters = Counters3(1000, 200, 40)

\* C3 restricted to CallgrindOutput::parse, which it holds of.
C3_HoldsOfCallgrindOutputParse ==
    parser = "CallgrindOutput_parse" => C3_PositionColumnsSkipped

\* The columns the running parser skips.
ParserColumns == IF parser = "parse_callgrind_output" THEN 1 ELSE DeclaredColumns

\* C5: an empty line returns the parser to SCAN (all flags off); a cost
\* line is counted only in a record opened by a line starting with
\* fn=<sentinel> with no empty line in between; and every record of the
\* sentinel adds to the same totals.
C5_EmptyLineEndsRecord ==
    /\ phase = "lines" /\ pos > LoopStart /\ file[pos].kind = "empty"
           => ~start_record /\ ~maybe_counting /\ ~start_counting
    /\ \A i \in counted : InSentinelRecord(i)
    /\ \A i \in 3..pos :
           /\ phase # "panicked"
           /\ file[i].kind = "cost" /\ file[i - 1].kind = "calls" /\ file[i - 2].kind = "cfn"
           /\ InSentinelRecord(i)
           => i \in counted
    /\ phase # "panicked" => counters = SumCosts(counted, ParserColumns)

\* Cost lines of two records of the sentinel were counted.
C5_Witness ==
    /\ ParseReturned
    /\ \E i, j \in counted : \E e \in i..j : file[e].kind = "empty"
    /\ counters # ZeroCounters

\* The summary's first-level hits: l1_hits, or Ir + l1_data_hits in lib.rs.
SummaryL1Hits ==
    IF parser = "parse_callgrind_output"
    THEN (summary.instructions + summary.l1_data_hits) % U64
    ELSE summary.l1_hits

\* No subtraction of summarize underflows on the parsed counters.
SummaryWellDefined ==
    /\ counters[7] + counters[8] + counters[9] <= counters[4] + counters[5] + counters[6]
    /\ counters[4] + counters[5] + counters[6] <=
           IF parser = "parse_callgrind_output" THEN counters[2] + counters[3]
           ELSE counters[1] + counters[2] + counters[3]

SummaryComputed == phase = "summarized" /\ summary.state = "summary"

\* The equation of C6 on a computed summary: in u64 arithmetic always, and
\* in the integers when no subtraction underflowed.
SummaryEquation ==
    /\ summary.ram_hits = (counters[7] + counters[8] + counters[9]) % U64
    /\ summary.l3_hits =
           (counters[4] + counters[5] + counters[6] - summary.ram_hits + U64) % U64
    /\ summary.total_memory_rw = (counters[1] + counters[2] + counters[3]) % U64
    /\ (SummaryL1Hits + summary.l3_hits + summary.ram_hits) % U64 = summary.total_memory_rw
    /\ SummaryWellDefined =>
           /\ summary.l3_hits = counters[4] + counters[5] + counters[6] - summary.ram_hits
           /\ SummaryL1Hits + summary.l3_hits + summary.ram_hits
                  = counters[1] + counters[2] + counters[3]

InRecordOfTheSentinelItself(i) ==
    \E f \in 1..i : InRecordOf(f, i) /\ file[f].name = SentinelName

\* CLAIM C37: only the records of the sentinel function itself add to the result: a
\* record whose fn= name begins with the sentinel and goes on, as fn=my_mod::bench_a_2
\* for the sentinel my_mod::bench_a, adds nothing.
C37_OnlyTheSentinelItself ==
    /\ \A i \in counted : InRecordOfTheSentinelItself(i)
    /\ ParseReturned =>
           counters = SumCosts({i \in counted : InRecordOfTheSentinelItself(i)}, ParserColumns)

\* What holds instead: the lines that are counted lie in records opened by a line that
\* starts with fn=<sentinel>.
C37_HoldsOfNamesStartingWithTheSentinel ==
    /\ \A i \in counted : InSentinelRecord(i)
    /\ \A f \in (LoopStart + 1)..pos :
           /\ phase = "lines"
           /\ file[f].kind = "fn" /\ file[f].name = LongerName
           /\ f = 1 \/ file[f - 1].kind \in {"empty", "positions"}
           => start_record

\* CLAIM C36: summarize never underflows its unsigned subtractions: for every cost vector
\* the parser returns, the last-level misses are at most the first-level misses, and
\* l3_hits + ram_hits is at most Ir + Dr + Dw (at most Dr + Dw for the l1_data_hits of
\* lib.rs), so that l3_hits, l1_hits and l1_data_hits are the differences in the integers.
C36_NoSubtractionUnderflows ==
    phase = "summarized" =>
        /\ SummaryWellDefined
        /\ summary.state = "summary"
        /\ summary.l3_hits = counters[4] + counters[5] + counters[6] - summary.ram_hits
        /\ SummaryL1Hits = counters[1] + counters[2] + counters[3]
                               - summary.l3_hits - summary.ram_hits

\* What holds instead: a summary of counters on which no subtraction underflows has the
\* differences in the integers, and a summarize that panics had an underflow.
C36_HoldsOfConsistentCounters ==
    /\ SummaryComputed /\ SummaryWellDefined =>
           /\ summary.l3_hits = counters[4] + counters[5] + counters[6] - summary.ram_hits
           /\ SummaryL1Hits = counters[1] + counters[2] + counters[3]
                                  - summary.l3_hits - summary.ram_hits
    /\ phase = "summarized" /\ summary.state = "panic" => ~SummaryWellDefined


(***************************************************************************)
(* Adding cost lines to an accumulator: Costs::add_iter_str and Costs::add  *)
(* of callgrind/mod.rs, and the loop over the [u64; 9] array of lib.rs.     *)
(***************************************************************************)
\* The names of an events: line; "Bogus" is no EventType.
EventsLines ==
    {<<"Ir">>, <<"Ir", "Dr">>, <<"Ir", "Dr", "Dw">>, <<"Ir", "Bogus">>,
     <<"Ir", "Dr", "Dw", "I1mr", "D1mr", "D1mw", "ILmr", "DLmr", "DLmw">>}

\* The cost strings of an iterator: decimal numbers and the hexadecimal -1.
Tokens == {0, 1, U64 - 1, -1}

CostIters == SeqsUpTo(Tokens, MaxTokens)

\* The vectors given to Costs::add.
OtherCosts ==
    {[i \in 1..Len(e) |-> Event(e[i], c)] :
        e \in {e \in EventsLines : ~EventType_from_panics(e)}, c \in {1, U64 - 1}}

\* The order of the counters in the array: the fields of CallgrindStats.
CounterNames == <<"Ir", "Dr", "Dw", "I1mr", "D1mr", "D1mw", "ILmr", "DLmr", "DLmw">>

\* The array with the names of its counters.
CountersAsEvents(cs) == [i \in 1..Len(cs) |-> Event(CounterNames[i], cs[i])]

\* The cost lines added to the array.
CostLines == CalleeCosts \cup {OwnCost, CostLine(<<1>>), CostLine(<<2, U64 - 1, 0, -1>>)}

\* The variables of the parsers are at rest, but for the counters.
IdleParse ==
    /\ parser = "parse_callgrind_output"
    /\ file = <<>>
    /\ pos = 0
    /\ phase = "lines"
    /\ warned = FALSE
    /\ mode = "None"
    /\ start_record = FALSE
    /\ maybe_counting = FALSE
    /\ start_counting = FALSE
    /\ counted = {}
    /\ summary = NoSummary

\* Costs::default(), events.collect::<Costs>(), or let mut counters: [u64; 9] = [0; 9]
InitCosts ==
    /\ IdleParse
    /\ IdleRotate
    /\ IdleNames
    /\ IdleOrch
    /\ IdleLater
    /\ counters = ZeroCounters
    /\ adds = 0
    /\ last_add = NoAdd
    /\ \/ accumulator = "counters" /\ costs = <<>>
       \/ accumulator = "Costs" /\ costs = Costs_default
       \/ \E events \in EventsLines :
              IF EventType_from_panics(events)
              THEN accumulator = "unreachable" /\ costs = <<>>
              ELSE accumulator = "Costs" /\ costs = Costs_from_iter(events)

\* The pair the loop stops before: the panicking one, or the end.
StopsBefore(cs, nums, overflow_checks) ==
    LET p == FirstPanic(cs, nums, overflow_checks) IN
    IF p = 0 THEN ZipLen(cs, nums) + 1 ELSE p

\* costs.add_iter_str(iter)
CostsAddIterStr ==
    /\ accumulator = "Costs"
    /\ adds < MaxAdds
    /\ \E iter \in CostIters, overflow_checks \in BOOLEAN :
           LET cs == CostsOfEvents(costs)
               after == add_iter_str(costs, iter, StopsBefore(cs, iter, overflow_checks))
               panicked == FirstPanic(cs, iter, overflow_checks) # 0
           IN /\ costs' = after
              /\ last_add' = Added("add_iter_str", costs, iter, after, panicked)
              /\ accumulator' = IF panicked THEN "panicked" ELSE accumulator
    /\ adds' = adds + 1
    /\ UNCHANGED <<notCostsVars, parseVars>>

\* costs.add(&other)
CostsAdd ==
    /\ accumulator = "Costs"
    /\ adds < MaxAdds
    /\ \E other \in OtherCosts, overflow_checks \in BOOLEAN :
           LET cs == CostsOfEvents(costs)
               iter == CostsOfEvents(other)
               after == Costs_add(costs, other, StopsBefore(cs, iter, overflow_checks))
               panicked == FirstPanic(cs, iter, overflow_checks) # 0
           IN /\ costs' = after
              /\ last_add' = Added("add", costs, iter, after, panicked)
              /\ accumulator' = IF panicked THEN "panicked" ELSE accumulator
    /\ adds' = adds + 1
    /\ UNCHANGED <<notCostsVars, parseVars>>

\* parse_callgrind_output: the loop over the columns of a counted cost line
CountersAdd ==
    /\ accumulator = "counters"
    /\ adds < MaxAdds
    /\ \E l \in CostLines, overflow_checks \in BOOLEAN :
           LET nums == CounterColumns(l.cols, SkipLineNumber)
               stop == StopsBefore(counters, nums, overflow_checks)
               after == AddCounters(counters, Take(nums, stop - 1))
               panicked == FirstPanic(counters, nums, overflow_checks) # 0
           IN /\ counters' = after
              /\ last_add' = Added("counters", CountersAsEvents(counters),
                                   Skip(l.cols, SkipLineNumber), CountersAsEvents(after),
                                   panicked)
              /\ accumulator' = IF panicked THEN "panicked" ELSE accumulator
    /\ adds' = adds + 1
    /\ UNCHANGED <<notCostsVars, parser, file, pos, phase, warned, mode, start_record,
                   maybe_counting, start_counting, counted, summary, costs>>

NextCosts ==
    \/ CostsAddIterStr
    \/ CostsAdd
    \/ CountersAdd

SpecCosts == InitCosts /\ [][NextCosts]_vars

\* The last addition returned.
AddReturned == last_add.op # "none" /\ ~last_add.panicked

\* C4: a cost line with k counters adds its values (in u64 arithmetic) to the
\* first k events of the vector and leaves the other events as they were;
\* counters beyond the number of events are ignored, and no addition, not
\* even one that panics, changes the length of the vector or the order of
\* its events.
C4_FewerCountersAddToFirstEvents ==
    LET before == last_add.before
        after == last_add.after
        iter == last_add.iter
    IN /\ Len(after) = Len(before)
       /\ KindsOfEvents(after) = KindsOfEvents(before)
       /\ AddReturned =>
              \A i \in 1..Len(before) :
                  after[i].cost = IF i <= Len(iter)
                                  THEN (before[i].cost + iter[i]) % U64
                                  ELSE before[i].cost
       /\ accumulator = "Costs" => costs = after \/ last_add = NoAdd
       /\ accumulator = "counters" => CountersAsEvents(counters) = after \/ last_add = NoAdd

\* A line with fewer counters than events was added to a vector whose last
\* event had a cost already, and before it a line with more counters than
\* events.
C4_Witness ==
    /\ AddReturned
    /\ last_add.op = "add_iter_str"
    /\ 0 < Len(last_add.iter)
    /\ Len(last_add.iter) < Len(last_add.before)
    /\ last_add.before[Len(last_add.before)].cost > 0
    /\ last_add.after[1].cost > last_add.before[1].cost


(***************************************************************************)
(* The runs of one benchmark.  Every run is an invocation of the runner:   *)
(* it rotates the output files, runs valgrind and, when the command        *)
(* succeeded, compares the new output with the old one.                    *)
(***************************************************************************)
Rotations == {"create", "move_old"}

InitRotate ==
    /\ IdleParse
    /\ counters = ZeroCounters
    /\ IdleCosts
    /\ IdleNames
    /\ IdleOrch
    /\ IdleLater
    /\ rotation \in Rotations
    /\ fs = [n \in FileNames |-> NoFile]
    /\ step = "idle"
    /\ run_id = 0
    /\ fs_before = [n \in FileNames |-> NoFile]
    /\ last_success = 0
    /\ failed = {}
    /\ compared = NotCompared

\* CallgrindOutput::create(..), or output_path.init() of ToolConfigs::run
Create ==
    /\ step = "idle"
    /\ run_id < MaxRuns
    /\ run_id' = run_id + 1
    /\ fs_before' = fs
    /\ fs' = IF rotation = "create" THEN copy_to_old(fs) ELSE init_paths(fs)
    /\ step' = "created"
    /\ UNCHANGED <<rotation, last_success, failed, compared, notRotateVars>>

\* What run r writes to the files `written`.
WriteFiles(f, r, written) ==
    [n \in FileNames |-> IF n \in written THEN <<r, n>> ELSE f[n]]

\* command.run(..)?: valgrind could be launched or not; when it was, it
\* wrote the output file, possibly further parts and (with a log path) the
\* log, and check_exit accepts the exit code or returns the error.
CommandRun ==
    /\ step = "created"
    /\ \E launched \in BOOLEAN, ok \in BOOLEAN, parts \in SUBSET PartNames :
           /\ ok => launched
           /\ fs' = IF launched
                    THEN WriteFiles(fs, run_id,
                                    {Out} \cup parts
                                    \cup IF rotation = "move_old" THEN {LogName} ELSE {})
                    ELSE fs
           /\ step' = IF ok THEN "ran" ELSE "idle"
           /\ failed' = IF ok THEN failed ELSE failed \cup {run_id}
    /\ UNCHANGED <<rotation, run_id, fs_before, last_success, compared, notRotateVars>>

\* let new_stats = output.parse_summary();
\* let old_stats = old_output.exists().then(|| old_output.parse_summary());
Compare ==
    /\ step = "ran"
    /\ compared' = [run |-> run_id, new |-> fs[Out], old |-> fs[OutOld],
                    baseline |-> IF last_success = 0 THEN NoFile
                                 ELSE <<last_success, Out>>]
    /\ last_success' = run_id
    /\ step' = "idle"
    /\ UNCHANGED <<rotation, fs, run_id, fs_before, failed, notRotateVars>>

NextRotate ==
    \/ Create
    \/ CommandRun
    \/ Compare

SpecRotate == InitRotate /\ [][NextRotate]_vars

\* The old output files: <file>.out*.old
OldFiles(f) == {n \in FileNames : GlobPathOld(n, "out") /\ Exists(f, n)}

\* The output files that are not old ones.
LiveFiles(f) ==
    {n \in FileNames : GlobPath(n, "out") /\ extension(n) # "old" /\ Exists(f, n)}

\* The rotation has just run and found both <file>.out and <file>.out.old.
RotatedBoth == step = "created" /\ Exists(fs_before, Out) /\ Exists(fs_before, OutOld)

\* No file holds what <file>.out.old held, unless <file>.out held the same.
PriorOldGone ==
    \/ fs_before[OutOld] = fs_before[Out]
    \/ \A n \in FileNames : fs[n] # fs_before[OutOld]

\* C7 as stated: a rotation that finds <file>.out and <file>.out.old leaves
\* exactly one .old file, which holds what <file>.out held, and what
\* <file>.out.old held is gone.
C7_ExactlyOneOldFile ==
    RotatedBoth =>
        /\ Cardinality(OldFiles(fs)) = 1
        /\ fs[OutOld] = fs_before[Out]
        /\ PriorOldGone

\* C7, amended: a rotation that finds <file>.out and <file>.out.old leaves
\* a <file>.out.old that holds what <file>.out held, and what <file>.out.old
\* held is gone.  CallgrindOutput::create never makes another .old file;
\* ToolOutputPath::move_old leaves one .old file for every output file it
\* found (<file>.out and the further files valgrind wrote), each with the
\* contents of its output file, and no other .old file.
C7_OneOldFilePerOutputFile ==
    /\ RotatedBoth => fs[OutOld] = fs_before[Out] /\ PriorOldGone
    /\ rotation = "create" => OldFiles(fs) \subseteq {OutOld}
    /\ step = "created" /\ rotation = "move_old" =>
           /\ OldFiles(fs) = {OldNameOf(n) : n \in LiveFiles(fs_before)}
           /\ \A n \in LiveFiles(fs_before) : fs[OldNameOf(n)] = fs_before[n]
           /\ LiveFiles(fs) = {}
           /\ fs[OldNameOf(LogName)] = fs_before[LogName]

\* A rotation found <file>.out and a <file>.out.old with other contents,
\* and left one .old file.
C7_Witness ==
    /\ RotatedBoth
    /\ fs_before[OutOld] # fs_before[Out]
    /\ fs[OutOld] = fs_before[Out]
    /\ Cardinality(OldFiles(fs)) = 1

\* C8 as stated: the old output a run is compared against is the output of
\* the most recent earlier run that succeeded (none when no run succeeded),
\* whatever runs failed in between.
C8_BaselineIsLastSuccessfulRun ==
    compared.run # 0 => compared.old = compared.baseline

\* What holds instead: the run is compared against the last successful run
\* when no run has failed.
C8_HoldsWithoutFailedRuns ==
    compared.run # 0 /\ failed = {} => compared.old = compared.baseline


(***************************************************************************)
(* The benchmarks of a binary benchmark file: Config::parse_runs makes the *)
(* BinBench of every args of every run, and BinBench::run names the output *)
(* file of each.                                                           *)
(***************************************************************************)
\* run.orig
Origs == {<<"c">>, <<"n", "u", "l">>}

\* args.id
Ids == {None, <<"Some", "0">>, <<"Some", "1">>}

\* args.args
ArgLists == {<<>>, <<<<"a">>, <<"b">>>>, <<<<"a", " ", "b">>>>, <<<<"a", "/", "b">>>>,
             <<<<"a", "_", "b">>>>}

InitNames ==
    /\ IdleParse
    /\ counters = ZeroCounters
    /\ IdleCosts
    /\ IdleRotate
    /\ IdleOrch
    /\ IdleLater
    /\ name_step = "parse_runs"
    /\ orig = <<>>
    /\ counter = 0
    /\ benches = <<>>
    /\ created = <<>>

\* parse_runs: for run in runs { let orig = run.orig; ...
ParseRunsNextRun ==
    /\ name_step = "parse_runs"
    /\ Len(benches) < MaxBenches
    /\ \E o \in Origs : orig' = o
    /\ UNCHANGED <<name_step, counter, benches, created, notNamesVars>>

\* parse_runs: for args in run.args { ... benches.push(BinBench { .. }) }
ParseRunsNextArgs ==
    /\ name_step = "parse_runs"
    /\ orig # <<>>
    /\ Len(benches) < MaxBenches
    /\ \E id \in Ids, args \in ArgLists :
           LET r == parse_runs_id(id, counter) IN
           /\ counter' = r.counter
           /\ benches' = Append(benches, BinBench(r.id, orig, args))
    /\ UNCHANGED <<name_step, orig, created, notNamesVars>>

\* parse_runs: benches
ParseRunsReturn ==
    /\ name_step = "parse_runs"
    /\ name_step' = "benches"
    /\ UNCHANGED <<orig, counter, benches, created, notNamesVars>>

\* run: for bench in &config.benches { bench.run(&config)?; } with
\* BinBench::run: CallgrindOutput::create(.., &format!("{}.{}", ..))
BinBenchRun ==
    /\ name_step = "benches"
    /\ Len(created) < Len(benches)
    /\ LET name == output_name(benches[Len(created) + 1]) IN
       created' = Append(created, [name |-> name, file |-> create_file_name(name)])
    /\ UNCHANGED <<name_step, orig, counter, benches, notNamesVars>>

\* run: Ok(())
BenchesDone ==
    /\ name_step = "benches"
    /\ Len(created) = Len(benches)
    /\ name_step' = "done"
    /\ UNCHANGED <<orig, counter, benches, created, notNamesVars>>

NextNames ==
    \/ ParseRunsNextRun
    \/ ParseRunsNextArgs
    \/ ParseRunsReturn
    \/ BinBenchRun
    \/ BenchesDone

SpecNames == InitNames /\ [][NextNames]_vars

\* C9 as stated: the names handed to CallgrindOutput::create for the
\* benchmarks of one file, and the file names made of them, are pairwise
\* different.
C9_OutputNamesPairwiseDifferent ==
    \A i, j \in 1..Len(created) :
        i # j => created[i].name # created[j].name /\ created[i].file # created[j].file

\* What holds instead: benchmarks with different ids have different names
\* and files, and the ids parse_runs gives by its counter differ from each
\* other.
C9_HoldsOfDifferentIds ==
    /\ \A i, j \in 1..Len(created) :
           benches[i].id # benches[j].id =>
               created[i].name # created[j].name /\ created[i].file # created[j].file
    /\ name_step = "done" /\ counter = Len(benches) =>
           \A i, j \in 1..Len(benches) : i # j => benches[i].id # benches[j].id


(***************************************************************************)
(* run of bin_bench.rs: before, then setup, the benchmark and teardown for *)
(* every benchmark, then after.  Every step runs a child process and waits *)
(* for it (Command::output); an error of a step is returned at once.  run  *)
(* of lib.rs is the loop without assistants.                               *)
(***************************************************************************)
InitOrch ==
    /\ IdleLater
    /\ IdleParse
    /\ counters = ZeroCounters
    /\ IdleCosts
    /\ IdleRotate
    /\ IdleNames
    /\ assists \in [AssistantKinds -> {NoAssistant, Assistant(TRUE), Assistant(FALSE)}]
    /\ n_benches \in 0..MaxBenches
    /\ position = NextPosition(Position("start", 0), n_benches)
    /\ running = FALSE
    /\ log = <<>>
    /\ result = "none"
    /\ error = NoError

AtAssistant == position.kind \in AssistantKinds

\* if let Some(assistant) = assists.<kind>.as_mut() { .. } with None
SkipAssistant ==
    /\ result = "none" /\ ~running
    /\ AtAssistant
    /\ ~assists[position.kind].present
    /\ position' = NextPosition(position, n_benches)
    /\ UNCHANGED <<assists, n_benches, running, log, result, error, notOrchVars>>

\* Assistant::run: run_bench (setup and teardown once only) or run_plain
AssistantRun ==
    /\ result = "none" /\ ~running
    /\ AtAssistant
    /\ assists[position.kind].present
    /\ LET a == assists[position.kind] IN
       /\ log' = Append(log, Event_of(position, "start",
                                      IF a.bench THEN "bench" ELSE "plain", TRUE))
       /\ assists' = IF a.bench /\ position.kind \in {"setup", "teardown"}
                     THEN [assists EXCEPT ![position.kind].bench = FALSE]
                     ELSE assists
    /\ running' = TRUE
    /\ UNCHANGED <<n_benches, position, result, error, notOrchVars>>

\* bench.run(&config), run_bench(index, name, &config)
BenchRun ==
    /\ result = "none" /\ ~running
    /\ position.kind = "bench"
    /\ log' = Append(log, Event_of(position, "start", "bench", TRUE))
    /\ running' = TRUE
    /\ UNCHANGED <<assists, n_benches, position, result, error, notOrchVars>>

\* The child process ended: the step returns Ok(()), or the error, which
\* the ? of run returns.
StepReturns ==
    /\ running
    /\ \E outcome \in {"Ok"} \cup ErrorKinds :
           LET after == AfterStep(position, outcome, n_benches) IN
           /\ log' = Append(log, Event_of(position, "finish", log[Len(log)].how,
                                         outcome = "Ok"))
           /\ position' = after.position
           /\ result' = after.result
           /\ error' = after.error
    /\ running' = FALSE
    /\ UNCHANGED <<assists, n_benches, notOrchVars>>

\* run: Ok(())
ReturnOk ==
    /\ result = "none"
    /\ position.kind = "end"
    /\ result' = "Ok"
    /\ UNCHANGED <<assists, n_benches, position, running, log, error, notOrchVars>>

NextOrch ==
    \/ SkipAssistant
    \/ AssistantRun
    \/ BenchRun
    \/ StepReturns
    \/ ReturnOk

SpecOrch == InitOrch /\ [][NextOrch]_vars

\* setup, the benchmark and teardown of the benchmarks i..n
RECURSIVE BenchSteps(_, _)
BenchSteps(i, n) ==
    IF i > n THEN <<>>
    ELSE <<Position("setup", i), Position("bench", i), Position("teardown", i)>>
         \o BenchSteps(i + 1, n)

\* The step is a benchmark or a hook that is configured.
Configured(p) == p.kind = "bench" \/ assists[p.kind].present

\* The steps of a run in the order of the specification.
ExpectedSteps ==
    SelectSeq(<<Position("before", 0)>> \o BenchSteps(1, n_benches)
              \o <<Position("after", 0)>>, Configured)

\* The steps that were started, in the order of their starts.
StartedSteps == [k \in 1..((Len(log) + 1) \div 2) |-> log[2 * k - 1].step]

\* C10: every step is started after the step before it has ended, the
\* steps start in the order before, (setup, benchmark, teardown) for every
\* benchmark in the order of the benchmarks, after, and a run that returns
\* Ok has run every configured step exactly once; no step is started after
\* a step that failed.
C10_StepsStrictlySequential ==
    /\ \A k \in 1..Len(log) :
           /\ log[k].ev = IF k % 2 = 1 THEN "start" ELSE "finish"
           /\ k % 2 = 0 => log[k].step = log[k - 1].step
           /\ k % 2 = 0 /\ k < Len(log) => log[k].ok
    /\ running <=> Len(log) % 2 = 1
    /\ IsPrefix(StartedSteps, ExpectedSteps)
    /\ result = "Ok" =>
           /\ StartedSteps = ExpectedSteps
           /\ ~running
           /\ \A k \in 1..Len(log) : log[k].ok
    /\ result = "Err" => ~running /\ Len(log) > 0 /\ ~log[Len(log)].ok

\* A run with all four hooks and two benchmarks returned Ok.
C10_Witness ==
    /\ result = "Ok"
    /\ n_benches = 2
    /\ \A k \in AssistantKinds : assists[k].present
    /\ Len(log) = 16


\* The configured steps that come after the step that was started last.
StepsNotStarted ==
    {ExpectedSteps[k] : k \in (Len(StartedSteps) + 1)..Len(ExpectedSteps)}

C12_SetupAndTeardownNeverBenched ==
    \A k \in 1..Len(log) :
        log[k].step.kind \in {"setup", "teardown"} => log[k].how = "plain"

\* What holds instead: setup and teardown are run under callgrind at most
\* for the first benchmark, and before and after are run as their bench
\* flag says.
C12_HoldsAfterTheFirstInvocation ==
    \A k \in 1..Len(log) :
        /\ log[k].step.kind \in {"setup", "teardown"} /\ log[k].step.index > 1 =>
               log[k].how = "plain"
        /\ log[k].step.kind \in {"before", "after"} =>
               (log[k].how = "bench" <=> assists[log[k].step.kind].bench)


(***************************************************************************)
(* CallgrindCommand::run and ToolCommand::run: the subprocess is run with  *)
(* Command::output and its exit status is checked against exit_with.       *)
(***************************************************************************)
ExitCodes == 0..MaxExitCode

\* SIGKILL and SIGSEGV
Signals == {9, 11}

ExitStatuses == {Exited(c) : c \in ExitCodes} \cup {Signaled(g) : g \in Signals}

ExitWiths ==
    {NoExitWith, ExitWith_Success, ExitWith_Failure} \cup {ExitWith_Code(c) : c \in ExitCodes}

InitExit ==
    /\ IdleParse
    /\ counters = ZeroCounters
    /\ IdleCosts
    /\ IdleRotate
    /\ IdleNames
    /\ IdleOrch
    /\ IdleArgs
    /\ IdleDiff
    /\ IdleNewer
    /\ exit_impl \in {"CallgrindCommand_check_exit", "check_exit"}
    /\ exit_with \in ExitWiths
    /\ exit_step = "run"
    /\ exit_output = NoOutput
    /\ exit_result = NotChecked

\* command.output(): the subprocess ended
CommandOutput ==
    /\ exit_step = "run"
    /\ \E status \in ExitStatuses : exit_output' = Output(status)
    /\ exit_step' = "output"
    /\ UNCHANGED <<exit_impl, exit_with, exit_result, notExitVars>>

\* command.output().map_err(LaunchError): the subprocess could not be started
CommandLaunchError ==
    /\ exit_step = "run"
    /\ exit_result' = CheckErr("LaunchError", "none")
    /\ exit_step' = "checked"
    /\ UNCHANGED <<exit_impl, exit_with, exit_output, notExitVars>>

\* .and_then(|output| check_exit(.., output, exit_with.as_ref()))
CheckExit ==
    /\ exit_step = "output"
    /\ exit_result' = IF exit_impl = "check_exit"
                      THEN check_exit(exit_output, exit_with)
                      ELSE CallgrindCommand_check_exit(exit_output, exit_with)
    /\ exit_step' = "checked"
    /\ UNCHANGED <<exit_impl, exit_with, exit_output, notExitVars>>

NextExit ==
    \/ CommandOutput
    \/ CommandLaunchError
    \/ CheckExit

SpecExit == InitExit /\ [][NextExit]_vars

\* The exit status of a subprocess was checked.
ExitChecked == exit_step = "checked" /\ exit_output # NoOutput

\* The policy accepts the exit code.
PolicyAccepts(code, with) ==
    \/ with.policy \in {"None", "Success"} /\ code = 0
    \/ with.policy = "Code" /\ code = with.code
    \/ with.policy = "Failure" /\ code # 0

\* C13: the check of a subprocess that exited with a code returns Ok
\* exactly when there is no policy or the policy is Success and the code is
\* 0, or the policy is Code(c) and the code is c, or the policy is Failure
\* and the code is not 0; in every other case it returns an error that
\* carries the captured output.
C13_ExitCodeAgainstPolicy ==
    ExitChecked /\ exit_output.status.exited =>
        /\ exit_result.state \in {"Ok", "Err"}
        /\ exit_result.state = "Ok" <=> PolicyAccepts(exit_output.status.code, exit_with)
        /\ exit_result.output = exit_output
        /\ exit_result.output.captured = "stdout and stderr"
        /\ exit_result.state = "Err" =>
               exit_result.error \in {"BenchmarkLaunchError", "ProcessError"}

\* A subprocess that exited with the code ExitWith::Code asks for, not 0,
\* was accepted.
C13_Witness ==
    /\ ExitChecked
    /\ exit_with.policy = "Code"
    /\ exit_output.status = Exited(exit_with.code)
    /\ exit_with.code > 0
    /\ exit_result.state = "Ok"

\* C14 as stated: a subprocess that a signal ended is reported as an error
\* value under every policy, and never by a panic.
C14_SignalIsReportedAsError ==
    ExitChecked /\ ~exit_output.status.exited =>
        exit_result.state = "Err" /\ exit_result.output = exit_output

\* C14 restricted to check_exit of tool/mod.rs, which it holds of.
C14_HoldsOfToolCheckExit ==
    ExitChecked /\ ~exit_output.status.exited /\ exit_impl = "check_exit" =>
        exit_result.state = "Err" /\ exit_result.output = exit_output

(***************************************************************************)
(* The arguments of callgrind: the list of the user, the removal of a      *)
(* trailing --bench, CallgrindArgs::from_args, and the arguments of each   *)
(* benchmark.                                                              *)
(***************************************************************************)
UserArgs ==
    { Arg("--I1=", "1024,4,64"), Arg("--I1=", "2048,8,64"), Arg("--D1=", "1024,4,64"),
      Arg("--LL=", "4096,8,64"), Arg("--cache-sim=", "no"),
      Arg("--callgrind-out-file=", "mine.out"),
      Arg("--collect-atstart=", "yes"), Arg("--collect-atstart=", "no"),
      Arg("--compress-strings=", "yes"), Arg("--compress-pos=", "yes"),
      Arg("--toggle-collect=", "f"), Arg("--toggle-collect=", "g"),
      Arg("--dump-instr=", "yes"), <<"--bench">>, <<"foo">> }

ArgsImpls == {"Config_new", "parse_callgrind_args"}

InitArgs ==
    /\ IdleParse
    /\ counters = ZeroCounters
    /\ IdleCosts
    /\ IdleRotate
    /\ IdleNames
    /\ IdleOrch
    /\ IdleExit
    /\ IdleDiff
    /\ IdleNewer
    /\ args_impl \in ArgsImpls
    /\ raw_args \in SeqsUpTo(UserArgs, MaxArgs)
    /\ args_step = "given"
    /\ arg_list = <<>>
    /\ callgrind_args = CallgrindArgs_default
    /\ bench_argv = <<>>

\* Config::new of lib.rs: the arguments that start with "--", without a
\* trailing --bench, given to from_args.
ConfigNew ==
    /\ args_impl = "Config_new"
    /\ args_step = "given"
    /\ arg_list' = strip_bench(filter_dashes(raw_args))
    /\ callgrind_args' = from_args(arg_list')
    /\ args_step' = "config"
    /\ UNCHANGED <<args_impl, raw_args, bench_argv>>
    /\ UNCHANGED notArgsVars

\* Config::parse_callgrind_args of bin_bench.rs
ParseCallgrindArgs ==
    /\ args_impl = "parse_callgrind_args"
    /\ args_step = "given"
    /\ arg_list' = strip_bench(raw_args)
    /\ callgrind_args' = from_args(arg_list')
    /\ args_step' = "config"
    /\ UNCHANGED <<args_impl, raw_args, bench_argv>>
    /\ UNCHANGED notArgsVars

\* run_bench of lib.rs for the next function: parse_with
RunBenchArgs ==
    /\ args_impl = "Config_new"
    /\ args_step = "config"
    /\ Len(bench_argv) < MaxBenches
    /\ LET k == Len(bench_argv) + 1
       IN  bench_argv' = Append(bench_argv,
               [entry_point |-> NoEntryPoint, pattern |-> FunctionPattern(k),
                argv |-> parse_with(callgrind_args, ToggleArg(FunctionPattern(k)))])
    /\ UNCHANGED <<args_impl, raw_args, args_step, arg_list, callgrind_args>>
    /\ UNCHANGED notArgsVars

\* BinBench::run for the next benchmark, with or without an entry point
BinBenchArgs ==
    /\ args_impl = "parse_callgrind_args"
    /\ args_step = "config"
    /\ Len(bench_argv) < MaxBenches
    /\ \E has_entry \in BOOLEAN :
        LET k == Len(bench_argv) + 1
            entry == IF has_entry THEN EntryPoint(k) ELSE NoEntryPoint
            r == BinBench_run_args(callgrind_args, entry)
        IN  /\ callgrind_args' = r.config
            /\ bench_argv' = Append(bench_argv,
                   [entry_point |-> entry, pattern |-> entry, argv |-> r.argv])
    /\ UNCHANGED <<args_impl, raw_args, args_step, arg_list>>
    /\ UNCHANGED notArgsVars

NextArgs == ConfigNew \/ ParseCallgrindArgs \/ RunBenchArgs \/ BinBenchArgs

SpecArgs == InitArgs /\ [][NextArgs]_vars

\* The arguments of the vector that start with the prefix.
WithPrefix(argv, prefix) == SelectSeq(argv, LAMBDA a : starts_with(a, prefix))

\* CLAIM C15
\* The vector given to valgrind holds one --cache-sim= option, which is
\* --cache-sim=yes, and one --callgrind-out-file= option, which is the path
\* of the runner, whatever the user gave.
C15_CacheSimAndOutFileOfTheRunner ==
    \A k \in 1..Len(bench_argv) :
        /\ WithPrefix(bench_argv[k].argv, "--cache-sim=") = <<Arg("--cache-sim=", "yes")>>
        /\ WithPrefix(bench_argv[k].argv, "--callgrind-out-file=") = <<OutFileArg>>

\* A benchmark of lib.rs was run with both options given by the user.
C15_Witness ==
    /\ args_impl = "Config_new"
    /\ Len(bench_argv) > 0
    /\ WithPrefix(raw_args, "--cache-sim=") # <<>>
    /\ WithPrefix(raw_args, "--callgrind-out-file=") # <<>>

\* The last argument with the prefix, or the default without one.
LastWithPrefix(args, prefix, default) ==
    LET w == WithPrefix(args, prefix)
    IN  IF w = <<>> THEN default ELSE w[Len(w)]

RecognizedPrefixes ==
    {"--I1=", "--D1=", "--LL=", "--cache-sim=", "--collect-atstart=", "--compress-strings=",
     "--compress-pos=", "--toggle-collect=", "--callgrind-out-file="}

\* The flag of an argument; the pass-through options count as one flag.
FlagOf(arg) ==
    IF Len(arg) = 2 /\ arg[1] \in RecognizedPrefixes THEN arg[1] ELSE "pass-through"

PassThrough(args) == SelectSeq(args, LAMBDA a : FlagOf(a) = "pass-through")

\* The lists that differ from args only in how the arguments of different
\* flags are interleaved.
Interleavings(args) ==
    LET n == Len(args)
        keeps(p) == \A i, j \in 1..n :
                        (i < j /\ FlagOf(args[p[i]]) = FlagOf(args[p[j]])) => p[i] < p[j]
    IN  { [i \in 1..n |-> args[p[i]]] :
            p \in { q \in [1..n -> 1..n] :
                      (\A i, j \in 1..n : q[i] = q[j] => i = j) /\ keeps(q) } }

\* CLAIM C16
\* After from_args every single-valued flag holds its last occurrence in
\* the list, or its default without one, every --toggle-collect= is kept in
\* order, and every other interleaving of the flags of the list gives the
\* same result.
C16_LastOccurrenceAndAllToggles ==
    args_step = "config" =>
        /\ callgrind_args.i1 = LastWithPrefix(arg_list, "--I1=", CallgrindArgs_default.i1)
        /\ callgrind_args.d1 = LastWithPrefix(arg_list, "--D1=", CallgrindArgs_default.d1)
        /\ callgrind_args.ll = LastWithPrefix(arg_list, "--LL=", CallgrindArgs_default.ll)
        /\ callgrind_args.collect_atstart =
             LastWithPrefix(arg_list, "--collect-atstart=",
                            CallgrindArgs_default.collect_atstart)
        /\ callgrind_args.compress_strings =
             LastWithPrefix(arg_list, "--compress-strings=",
                            CallgrindArgs_default.compress_strings)
        /\ callgrind_args.compress_pos =
             LastWithPrefix(arg_list, "--compress-pos=", CallgrindArgs_default.compress_pos)
        /\ callgrind_args.toggle_collect = WithPrefix(arg_list, "--toggle-collect=")
        /\ \A other \in Interleavings(arg_list) : from_args(other) = callgrind_args

\* from_args got a list with two different --I1=.
C16_Witness ==
    /\ args_step = "config"
    /\ Len(arg_list) = 2
    /\ Len(WithPrefix(arg_list, "--I1=")) = 2
    /\ arg_list[1] # arg_list[2]
    /\ callgrind_args.i1 = arg_list[2]

\* CLAIM C17
\* The vector of a benchmark is: I1, D1, LL, --cache-sim=yes,
\* collect-atstart, the two compress options, the pass-through options in
\* their input order, the output file, the toggle of the runner when there
\* is one, the toggles of the user in their input order.
C17_FixedOrderOfTheVector ==
    \A k \in 1..Len(bench_argv) :
        LET argv == bench_argv[k].argv
            n == Len(PassThrough(arg_list))
            inserted == IF bench_argv[k].pattern = NoEntryPoint
                        THEN <<>>
                        ELSE <<ToggleArg(bench_argv[k].pattern)>>
        IN  /\ Len(argv) >= 8 + n
            /\ starts_with(argv[1], "--I1=")
            /\ starts_with(argv[2], "--D1=")
            /\ starts_with(argv[3], "--LL=")
            /\ argv[4] = Arg("--cache-sim=", "yes")
            /\ starts_with(argv[5], "--collect-atstart=")
            /\ {argv[6][1], argv[7][1]} = {"--compress-strings=", "--compress-pos="}
            /\ SubSeq(argv, 8, 7 + n) = PassThrough(arg_list)
            /\ starts_with(argv[8 + n], "--callgrind-out-file=")
            /\ SubSeq(argv, 9 + n, Len(argv))
                 = inserted \o WithPrefix(arg_list, "--toggle-collect=")

\* A benchmark of lib.rs ran with a toggle and, after it, a pass-through
\* option of the user.
C17_Witness ==
    /\ args_impl = "Config_new"
    /\ Len(bench_argv) > 0
    /\ Len(arg_list) = 2
    /\ starts_with(arg_list[1], "--toggle-collect=")
    /\ FlagOf(arg_list[2]) = "pass-through"

\* The set of the arguments of a vector.
ArgsOf(argv) == {argv[i] : i \in 1..Len(argv)}

\* CLAIM C18
\* Every benchmark of BinBench::run works on a clone: the arguments of the
\* configuration stay as from_args left them.  With an entry point the
\* vector has --collect-atstart=no and, before the toggles of the user, one
\* toggle with the entry point; without one it has --collect-atstart=yes and
\* the toggles of the user only.  The entry point of one benchmark is in no
\* vector of another benchmark.
C18_EntryPointPerBenchmark ==
    args_impl = "parse_callgrind_args" =>
        /\ args_step = "config" => callgrind_args = from_args(arg_list)
        /\ \A k \in 1..Len(bench_argv) :
            LET b == bench_argv[k]
                toggles == WithPrefix(b.argv, "--toggle-collect=")
                atstart == WithPrefix(b.argv, "--collect-atstart=")
                user == WithPrefix(arg_list, "--toggle-collect=")
            IN  /\ b.entry_point # NoEntryPoint =>
                     /\ atstart = <<Arg("--collect-atstart=", "no")>>
                     /\ toggles = <<ToggleArg(b.entry_point)>> \o user
                /\ b.entry_point = NoEntryPoint =>
                     /\ atstart = <<Arg("--collect-atstart=", "yes")>>
                     /\ toggles = user
                /\ \A j \in 1..Len(bench_argv) :
                     (j # k /\ bench_argv[j].entry_point # NoEntryPoint)
                        => ToggleArg(bench_argv[j].entry_point) \notin ArgsOf(b.argv)

\* A benchmark with an entry point was followed by one without, and the
\* user gave --collect-atstart=yes and a toggle.
C18_Witness ==
    /\ args_impl = "parse_callgrind_args"
    /\ Len(bench_argv) = 2
    /\ bench_argv[1].entry_point # NoEntryPoint
    /\ bench_argv[2].entry_point = NoEntryPoint
    /\ Arg("--collect-atstart=", "yes") \in ArgsOf(arg_list)
    /\ WithPrefix(arg_list, "--toggle-collect=") # <<>>

\* CLAIM C19
\* The list given to from_args is the list of the user without its last
\* argument when that is --bench, and the list of the user otherwise: a
\* --bench elsewhere stays, one argument at most is removed, nothing else
\* is removed or moved.
C19_OnlyTheTrailingBenchIsRemoved ==
    args_step = "config" =>
        LET n == Len(raw_args)
        IN  IF n > 0 /\ raw_args[n] = <<"--bench">>
            THEN arg_list = SubSeq(raw_args, 1, n - 1)
            ELSE arg_list = raw_args

\* The same of Config::parse_callgrind_args alone, which holds: Config::new
\* of lib.rs looks for --bench after it has removed the arguments that do
\* not start with "--".
C19_HoldsOfParseCallgrindArgs ==
    args_impl = "parse_callgrind_args" => C19_OnlyTheTrailingBenchIsRemoved

(***************************************************************************)
(* CostsSummary::new of summary.rs: the differences between the costs of   *)
(* this run and of the run before.  Costs are a map of event kinds to      *)
(* costs                                                                   *)
(***************************************************************************)
CacheKinds == {CounterNames[i] : i \in 1..NumCounters}

SummaryKinds == {"L1hits", "LLhits", "RAMhits", "TotalRW", "EstimatedCycles"}

\* The event kinds of costs.
KindsOf(c) == DOMAIN c

\* Costs::is_summarized
is_summarized(c) == SummaryKinds \subseteq KindsOf(c)

\* Costs::make_summary: the derived events after the events of the cache
\* simulation; without these events the costs stay as they are, and the
\* error is dropped by the caller.
make_summary(c) ==
    IF CacheKinds \subseteq KindsOf(c)
    THEN LET cs == [i \in 1..NumCounters |-> c[CounterNames[i]]]
         IN  [k \in KindsOf(c) \cup SummaryKinds |->
                IF k = "L1hits" THEN l1_hits_of(cs)
                ELSE IF k = "LLhits" THEN l3_hits_of(cs)
                ELSE IF k = "RAMhits" THEN ram_hits_of(cs)
                ELSE IF k = "TotalRW" THEN total_memory_rw_of(cs)
                ELSE IF k = "EstimatedCycles"
                     THEN cycles_of(l1_hits_of(cs), l3_hits_of(cs), ram_hits_of(cs))
                ELSE c[k]]
    ELSE c

\* if !costs.is_summarized() { _ = costs.to_mut().make_summary(); }
Summarized(c) == IF is_summarized(c) THEN c ELSE make_summary(c)

\* Costs::event_kinds_union
event_kinds_union(a, b) == KindsOf(a) \cup KindsOf(b)

\* Costs::cost_by_kind
cost_by_kind(c, kind) == IF kind \in KindsOf(c) THEN Some(c[kind]) ELSE <<>>

\* The significant bits of an f64.  The 64 bits of a u64 do not fit into the
\* 53 of an f64; the model keeps that with the width of its words.
F64MantissaBits == WordBits - 2

\* The number of bits of n.
RECURSIVE BitLen(_)
BitLen(n) == IF n = 0 THEN 0 ELSE 1 + BitLen(n \div 2)

\* n as f64: the nearest value with F64MantissaBits significant bits, a tie
\* goes to the even one
to_f64(n) ==
    IF BitLen(n) <= F64MantissaBits
    THEN n
    ELSE LET ulp == 2 ^ (BitLen(n) - F64MantissaBits)
             lo == n - (n % ulp)
         IN  IF 2 * (n % ulp) < ulp THEN lo
             ELSE IF 2 * (n % ulp) > ulp THEN lo + ulp
             ELSE IF (lo \div ulp) % 2 = 0 THEN lo ELSE lo + ulp

\* An f64 that is the quotient of two f64 made of integers, kept as the
\* fraction; a denominator of 0 stands for the infinite result.
F64Quotient(num, den) == [num |-> num, den |-> den]

\* The sign of an integer: -1, 0 or 1.
Sgn(n) == IF n > 0 THEN 1 ELSE IF n < 0 THEN -1 ELSE 0

\* f64::is_sign_positive of a quotient with a denominator that is not
\* negative: x - x is +0.0
is_sign_positive(x) == x.num >= 0

\* util::percentage_diff and util::factor_diff of u64 values, as f64
percentage_diff(new, old) == F64Quotient((to_f64(new) - to_f64(old)) * 100, to_f64(old))
factor_diff(new, old) == F64Quotient(to_f64(new), to_f64(old))

CostsDiff(new, old, diff_pct, factor) ==
    [new |-> new, old |-> old, diff_pct |-> diff_pct, factor |-> factor]

\* The match of CostsSummary::new on the two costs of an event kind; the
\* arm (None, None) is unreachable!()
diff_of(new, old) ==
    IF new = <<>> /\ old # <<>> THEN CostsDiff(<<>>, old, <<>>, <<>>)
    ELSE IF new # <<>> /\ old = <<>> THEN CostsDiff(new, <<>>, <<>>, <<>>)
    ELSE IF new # <<>> /\ old # <<>>
         THEN CostsDiff(new, old, Some(percentage_diff(new[1], old[1])),
                        Some(factor_diff(new[1], old[1])))
    ELSE "unreachable"

\* CostsSummary::new with the loop over the event kinds of the new costs
\* only.
CostsSummary_new_NewKindsOnly(new, old) ==
    LET n == Summarized(new)
    IN  IF old # <<>>
        THEN LET o == Summarized(old[1])
             IN  [k \in KindsOf(n) |-> diff_of(cost_by_kind(n, k), cost_by_kind(o, k))]
        ELSE [k \in KindsOf(n) |-> CostsDiff(Some(n[k]), <<>>, <<>>, <<>>)]

\* CostsSummary::new(new_costs, old_costs)
CostsSummary_new(new, old) ==
    LET n == Summarized(new)
    IN  IF old # <<>>
        THEN LET o == Summarized(old[1])
             IN  [k \in event_kinds_union(n, o) |->
                    diff_of(cost_by_kind(n, k), cost_by_kind(o, k))]
        ELSE [k \in KindsOf(n) |-> CostsDiff(Some(n[k]), <<>>, <<>>, <<>>)]

\* The sets of event kinds of the costs that are compared: instructions
\* only, instructions and system calls, the cache simulation, and the cache
\* simulation with its summary.
KindSets == {{"Ir"}, {"Ir", "SysCount"}, CacheKinds, CacheKinds \cup SummaryKinds}

\* Costs with the kinds and ir instructions; the other events cost nothing.
CostsWith(kinds, ir) ==
    LET raw == [k \in kinds \ SummaryKinds |-> IF k = "Ir" THEN ir ELSE 0]
    IN  IF SummaryKinds \subseteq kinds THEN make_summary(raw) ELSE raw

SomeCosts == {CostsWith(kinds, ir) : kinds \in KindSets, ir \in 0..MaxCost}

InitDiff ==
    /\ IdleParse
    /\ counters = ZeroCounters
    /\ IdleCosts
    /\ IdleRotate
    /\ IdleNames
    /\ IdleOrch
    /\ IdleExit
    /\ IdleArgs
    /\ IdleNewer
    /\ new_costs \in SomeCosts
    /\ old_costs \in {<<>>} \cup {Some(c) : c \in SomeCosts}
    /\ summary_step = "given"
    /\ costs_summary = <<>>

\* CostsSummary::new(new_costs, old_costs)
CostsSummaryNew ==
    /\ summary_step = "given"
    /\ costs_summary' = CostsSummary_new(new_costs, old_costs)
    /\ summary_step' = "done"
    /\ UNCHANGED <<new_costs, old_costs>>
    /\ UNCHANGED notDiffVars

NextDiff == CostsSummaryNew

SpecDiff == InitDiff /\ [][NextDiff]_vars

\* CLAIM C20
\* Every CostsDiff of the summary has a new or an old cost; with both it
\* has diff_pct and factor, with one of them it has neither.  With old costs
\* the summary has the event kinds of the new and of the old costs, as
\* summarized; without old costs it has the event kinds of the new costs.
C20_DiffsPresentAndOnePerKind ==
    summary_step = "done" =>
        /\ \A k \in DOMAIN costs_summary :
            LET d == costs_summary[k]
            IN  /\ d.new # <<>> \/ d.old # <<>>
                /\ (d.new # <<>> /\ d.old # <<>>) => (d.diff_pct # <<>> /\ d.factor # <<>>)
                /\ (d.new = <<>> \/ d.old = <<>>) => (d.diff_pct = <<>> /\ d.factor = <<>>)
        /\ DOMAIN costs_summary =
             IF old_costs # <<>>
             THEN KindsOf(Summarized(new_costs)) \cup KindsOf(Summarized(old_costs[1]))
             ELSE KindsOf(Summarized(new_costs))

\* A summary with an event kind in both costs, one in the new costs only
\* and one in the old costs only.
C20_Witness ==
    /\ summary_step = "done"
    /\ old_costs # <<>>
    /\ \E k \in DOMAIN costs_summary :
        costs_summary[k].new # <<>> /\ costs_summary[k].old # <<>>
    /\ \E k \in DOMAIN costs_summary : costs_summary[k].old = <<>>
    /\ \E k \in DOMAIN costs_summary : costs_summary[k].new = <<>>

(***************************************************************************)
(* A row of CallgrindStats::print: the value of this run and, with a run   *)
(* before, its difference in percent.                                      *)
(***************************************************************************)
Delta(text, color, pct) == [text |-> text, color |-> color, pct |-> pct]

\* The absolute value of an integer.
Abs(n) == IF n < 0 THEN -n ELSE n

\* n.abs() < k of a quotient and a whole number k: the whole part of the quotient is
\* below k, and the infinite quotient is below nothing
abs_less_than(x, k) == x.den # 0 /\ Abs(x.num) \div x.den < k

\* The whole number of |num / den| * 10^p, and the rest of the division.
RECURSIVE Scaled(_, _, _, _)
Scaled(q, r, den, p) ==
    IF p = 0 THEN [n |-> q, r |-> r]
    ELSE Scaled(q * 10 + ((r * 10) \div den), (r * 10) % den, den, p - 1)

\* The last p decimal digits of n.
RECURSIVE LastDigits(_, _)
LastDigits(n, p) ==
    IF p = 0 THEN <<>> ELSE LastDigits(n \div 10, p - 1) \o <<Digits[(n % 10) + 1]>>

\* format!("{n:+.p}") of a quotient: the sign, the whole part and p fractional digits,
\* rounded to the nearest with a tie to the even digit; "+inf" of the infinite quotient
format_signed(x, p) ==
    IF x.den = 0 THEN <<"+", "i", "n", "f">>
    ELSE LET s == Scaled(Abs(x.num) \div x.den, Abs(x.num) % x.den, x.den, p)
             up == 2 * s.r > x.den \/ (2 * s.r = x.den /\ s.n % 2 = 1)
             n == IF up THEN s.n + 1 ELSE s.n
         IN  <<IF x.num < 0 THEN "-" ELSE "+">> \o to_string(n \div (10 ^ p))
                 \o (IF p = 0 THEN <<>> ELSE <<".">> \o LastDigits(n, p))

\* a signed_short with four fractional digits from 10 on
signed_short_FourDigitsFromTen(n) ==
    IF abs_less_than(n, 10) THEN format_signed(n, 6)
    ELSE IF abs_less_than(n, 1000) THEN format_signed(n, 4)
    ELSE IF abs_less_than(n, 10000) THEN format_signed(n, 3)
    ELSE IF abs_less_than(n, 100000) THEN format_signed(n, 2)
    ELSE IF abs_less_than(n, 1000000) THEN format_signed(n, 1)
    ELSE format_signed(n, 0)

\* CallgrindStats::signed_short of callgrind/mod.rs and of lib.rs
signed_short(n) ==
    IF abs_less_than(n, 10) THEN format_signed(n, 6)
    ELSE IF abs_less_than(n, 100) THEN format_signed(n, 5)
    ELSE IF abs_less_than(n, 1000) THEN format_signed(n, 4)
    ELSE IF abs_less_than(n, 10000) THEN format_signed(n, 3)
    ELSE IF abs_less_than(n, 100000) THEN format_signed(n, 2)
    ELSE IF abs_less_than(n, 1000000) THEN format_signed(n, 1)
    ELSE format_signed(n, 0)

\* format!("{:>+6}%", s): s after the spaces that fill it to six characters, and %
right_aligned_percent(s) == [i \in 1..(6 - Len(s)) |-> " "] \o s \o <<"%">>

NoChange == <<"N", "o", " ", "C", "h", "a", "n", "g", "e">>

\* a percentage_diff with the two colors exchanged
CallgrindStats_percentage_diff_GreenWhenPositive(new, old) ==
    IF new = old
    THEN Delta(NoChange, "bright_black", <<>>)
    ELSE LET pct == F64Quotient((to_f64(new) - to_f64(old)) * 100, to_f64(old))
         IN  IF is_sign_positive(pct)
             THEN Delta(right_aligned_percent(signed_short(pct)), "bright_green", Some(pct))
             ELSE Delta(right_aligned_percent(signed_short(pct)), "bright_red", Some(pct))

\* CallgrindStats::percentage_diff of callgrind/mod.rs and of lib.rs, the string between
\* " (" and ")"
CallgrindStats_percentage_diff(new, old) ==
    IF new = old
    THEN Delta(NoChange, "bright_black", <<>>)
    ELSE LET pct == F64Quotient((to_f64(new) - to_f64(old)) * 100, to_f64(old))
         IN  IF is_sign_positive(pct)
             THEN Delta(right_aligned_percent(signed_short(pct)), "bright_red", Some(pct))
             ELSE Delta(right_aligned_percent(signed_short(pct)), "bright_green", Some(pct))

\* The values of the scenario of the diff (new cycles = 110, old cycles = 100), and one
\* that is more than ten times and less than a hundred times the smallest.
ShownValues == {12, 100, 110}

\* The values of a row: small ones, the first ones an f64 cannot tell
\* apart, and the largest of a u64.
CostValues ==
    (0..MaxCost) \cup {2 ^ F64MantissaBits + k : k \in 0..MaxCost}
    \cup {U64 - 1 - k : k \in 0..MaxCost} \cup ShownValues

InitPrint ==
    /\ IdleParse
    /\ counters = ZeroCounters
    /\ IdleCosts
    /\ IdleRotate
    /\ IdleNames
    /\ IdleOrch
    /\ IdleExit
    /\ IdleArgs
    /\ IdleDiff
    /\ IdleReg
    /\ IdleTotals
    /\ IdlePath
    /\ IdleLast
    /\ print_new \in CostValues
    /\ print_old \in {<<>>} \cup {Some(v) : v \in CostValues}
    /\ print_step = "given"
    /\ print_delta = NoDelta

\* A row of CallgrindStats::print
PrintRow ==
    /\ print_step = "given"
    /\ print_delta' = IF print_old = <<>>
                      THEN NoDelta
                      ELSE CallgrindStats_percentage_diff(print_new, print_old[1])
    /\ print_step' = "printed"
    /\ UNCHANGED <<print_new, print_old>>
    /\ UNCHANGED notPrintVars

NextPrint == PrintRow

SpecPrint == InitPrint /\ [][NextPrint]_vars

\* The sign of the percentage of a printed row: 0 for No Change.
PrintedSign == IF print_delta.pct = <<>> THEN 0 ELSE Sgn(print_delta.pct[1].num)

\* Both values are small enough for an f64 to hold them exactly.
ExactAsF64 ==
    /\ to_f64(print_new) = print_new
    /\ print_old # <<>> => to_f64(print_old[1]) = print_old[1]

\* CLAIM C21
\* With a new and an old value the percentage has the sign of new - old,
\* and with an old value that is not 0 the factor is new / old.
C21_SignAndFactor ==
    (print_step = "printed" /\ print_old # <<>>) =>
        /\ PrintedSign = Sgn(print_new - print_old[1])
        /\ print_old[1] # 0 =>
             LET f == factor_diff(print_new, print_old[1])
             IN  f.num * print_old[1] = f.den * print_new

\* The same for values an f64 holds exactly, which holds.
C21_HoldsOfExactValues == ExactAsF64 => C21_SignAndFactor

\* CLAIM C22
\* The printed delta is the dim No Change exactly when new equals old, red
\* exactly when new is greater than old, green exactly when new is less than
\* old, and nothing without an old value.
C22_ColorOfTheDelta ==
    print_step = "printed" =>
        IF print_old = <<>>
        THEN print_delta = NoDelta
        ELSE /\ (print_delta.text = NoChange /\ print_delta.color = "bright_black")
                   <=> print_new = print_old[1]
             /\ print_delta.color = "bright_red" <=> print_new > print_old[1]
             /\ print_delta.color = "bright_green" <=> print_new < print_old[1]

\* The same for values an f64 holds exactly, which holds.
C22_HoldsOfExactValues == ExactAsF64 => C22_ColorOfTheDelta

(***************************************************************************)
(* BenchmarkSummary::check_regression of summary.rs , called for one        *)
(* benchmark after the other with the flag of the caller.                  *)
(***************************************************************************)
\* self.callgrind_summary: None
NoCallgrindSummary == [present |-> FALSE, regression_fail_fast |-> FALSE, summaries |-> <<>>]

\* A CallgrindSummary: fail-fast, and per run the number of its regressions
CallgrindSummary(fail_fast, summaries) ==
    [present |-> TRUE, regression_fail_fast |-> fail_fast, summaries |-> summaries]

\* CallgrindSummary::is_regressed
CallgrindSummary_is_regressed(cs) == \E i \in 1..Len(cs.summaries) : cs.summaries[i] > 0

\* check_regression with the flag set to the regression of this benchmark.
check_regression_Overwrites(bsummary, flag) ==
    IF bsummary.present
    THEN IF CallgrindSummary_is_regressed(bsummary) /\ bsummary.regression_fail_fast
         THEN [result |-> "RegressionError", is_regressed |-> flag]
         ELSE [result |-> "Ok", is_regressed |-> CallgrindSummary_is_regressed(bsummary)]
    ELSE [result |-> "Ok", is_regressed |-> flag]

\* BenchmarkSummary::check_regression(&self, is_regressed: &mut bool)
check_regression(bsummary, flag) ==
    IF bsummary.present
    THEN IF CallgrindSummary_is_regressed(bsummary) /\ bsummary.regression_fail_fast
         THEN [result |-> "RegressionError", is_regressed |-> flag]
         ELSE [result |-> "Ok", is_regressed |-> flag \/ CallgrindSummary_is_regressed(bsummary)]
    ELSE [result |-> "Ok", is_regressed |-> flag]

\* The summaries of a benchmark: none, or up to two runs with or without a
\* regression.
BenchmarkSummaries ==
    {NoCallgrindSummary}
    \cup {CallgrindSummary(ff, rs) : ff \in BOOLEAN, rs \in SeqsUpTo({0, 1}, 2)}

InitReg ==
    /\ IdleParse
    /\ counters = ZeroCounters
    /\ IdleCosts
    /\ IdleRotate
    /\ IdleNames
    /\ IdleOrch
    /\ IdleExit
    /\ IdleArgs
    /\ IdleDiff
    /\ IdlePrint
    /\ IdleTotals
    /\ IdlePath
    /\ IdleLast
    /\ is_regressed = FALSE
    /\ reg_error = "none"
    /\ reg_log = <<>>

\* check_regression of the next benchmark returns Ok
CheckRegressionOk ==
    /\ reg_error = "none"
    /\ Len(reg_log) < MaxBenches
    /\ \E bsummary \in BenchmarkSummaries :
        LET r == check_regression(bsummary, is_regressed)
        IN  /\ r.result = "Ok"
            /\ is_regressed' = r.is_regressed
            /\ reg_log' = Append(reg_log, [summary |-> bsummary, before |-> is_regressed,
                                           after |-> r.is_regressed, result |-> r.result])
    /\ UNCHANGED reg_error
    /\ UNCHANGED notRegVars

\* check_regression of the next benchmark returns the error, which ends the
\* run
CheckRegressionErr ==
    /\ reg_error = "none"
    /\ Len(reg_log) < MaxBenches
    /\ \E bsummary \in BenchmarkSummaries :
        LET r == check_regression(bsummary, is_regressed)
        IN  /\ r.result # "Ok"
            /\ is_regressed' = r.is_regressed
            /\ reg_error' = r.result
            /\ reg_log' = Append(reg_log, [summary |-> bsummary, before |-> is_regressed,
                                           after |-> r.is_regressed, result |-> r.result])
    /\ UNCHANGED notRegVars

NextReg == CheckRegressionOk \/ CheckRegressionErr

SpecReg == InitReg /\ [][NextReg]_vars

\* The benchmark has a run with a regression.
HasRegression(bsummary) ==
    bsummary.present /\ \E i \in 1..Len(bsummary.summaries) : bsummary.summaries[i] > 0

\* CLAIM C23
\* A benchmark with a regression and fail-fast gives RegressionError and
\* leaves the flag; one with a regression and without fail-fast gives Ok and
\* a true flag; one without a regression gives Ok and leaves the flag.  The
\* flag of a benchmark is the flag the benchmark before left, and a true
\* flag stays true.
C23_FailFastOrAccumulate ==
    /\ \A k \in 1..Len(reg_log) :
        LET e == reg_log[k]
        IN  /\ (HasRegression(e.summary) /\ e.summary.regression_fail_fast) =>
                 (e.result = "RegressionError" /\ e.after = e.before)
            /\ (HasRegression(e.summary) /\ ~e.summary.regression_fail_fast) =>
                 (e.result = "Ok" /\ e.after = TRUE)
            /\ ~HasRegression(e.summary) => (e.result = "Ok" /\ e.after = e.before)
            /\ e.before => e.after
            /\ k > 1 => e.before = reg_log[k - 1].after
    /\ Len(reg_log) > 0 => is_regressed = reg_log[Len(reg_log)].after

\* A benchmark with a regression without fail-fast was followed by one
\* without a regression, and the flag is still set.
C23_Witness ==
    /\ Len(reg_log) = 2
    /\ HasRegression(reg_log[1].summary)
    /\ reg_log[1].result = "Ok"
    /\ ~HasRegression(reg_log[2].summary)
    /\ reg_log[2].summary.present
    /\ is_regressed

(***************************************************************************)
(* The parse of a whole file as one function, made of the steps of the     *)
(* parsers above: the outcome and the counters.                            *)
(***************************************************************************)
FirstNonEmptyIn(f, from) == FirstOf({i \in (from + 1)..Len(f) : NonEmpty(f[i])})

FirstPositionsLineIn(f, from) == FirstOf({i \in (from + 1)..Len(f) : HasPositionsMode(f[i])})

ParseOutcome(outcome, cs) == [phase |-> outcome, counters |-> cs]

\* for line in iter { ... } from line i on
RECURSIVE ParseLinesFrom(_, _, _, _, _, _)
ParseLinesFrom(p, f, i, m, flags, cs) ==
    IF i > Len(f)
    THEN ParseOutcome("parsed", cs)
    ELSE LET nf == IF p = "parse_callgrind_output"
                   THEN parse_callgrind_output_line(flags, f[i], SentinelName)
                   ELSE CallgrindOutput_parse_line(flags, f[i], SentinelName)
             nums == CounterColumns(f[i].cols,
                         IF p = "parse_callgrind_output" THEN SkipLineNumber
                         ELSE SkipPositions(m))
         IN  IF nf.add /\ ParsePanics(nums)
             THEN ParseOutcome("panicked", cs)
             ELSE ParseLinesFrom(p, f, i + 1, m,
                      Flags(nf.start_record, nf.maybe_counting, nf.start_counting, FALSE),
                      IF nf.add THEN AddCounters(cs, nums) ELSE cs)

\* parse_callgrind_output and CallgrindOutput::parse of the file f
ParseFile(p, f) ==
    LET i == FirstNonEmptyIn(f, 0)
        j == FirstPositionsLineIn(f, i)
        start == Flags(FALSE, FALSE, FALSE, FALSE)
    IN  IF i = 0 THEN ParseOutcome("panicked", ZeroCounters)
        ELSE IF p = "parse_callgrind_output"
             THEN ParseLinesFrom(p, f, i + 1, "None", start, ZeroCounters)
        ELSE IF j = 0 THEN ParseOutcome("panicked", ZeroCounters)
        ELSE ParseLinesFrom(p, f, j + 1, from_positions_line(f[j]), start, ZeroCounters)

\* The parse of the file is over, one way or the other.
ParseOver == phase \in {"parsed", "panicked"}

\* The steps of the parser and the function agree on every file.
ParseFileIsTheParse ==
    ParseOver => ParseFile(parser, file) = ParseOutcome(phase, counters)

\* CLAIM C24
\* The parse of a file never aborts: a missing, empty or malformed file
\* gives an error value.
C24_ParseNeverAborts == phase # "panicked"

\* The file has a first non-empty line, which is not the format line.
Headerless(f) ==
    /\ FirstNonEmptyIn(f, 0) # 0
    /\ ~contains_callgrind_format(f[FirstNonEmptyIn(f, 0)])

\* CLAIM C25
\* A file without the format line is parsed with a warning and to the same
\* end, with the same counters, as the file with the format line in front.
C25_SameAsWithFormatLine ==
    (ParseOver /\ Headerless(file)) =>
        /\ warned
        /\ ParseFile(parser, <<FormatLine>> \o file) = ParseOutcome(phase, counters)

\* The same for the files whose first line is the events: line, which
\* holds: the line the parsers drop for the format line carries nothing.
C25_HoldsWhenEventsLineIsFirst ==
    (Len(file) > 0 /\ file[1] = EventsLine) => C25_SameAsWithFormatLine

\* A non-empty line that is neither a cost line nor cfn= nor calls=.
PausingLine(l) ==
    ~is_empty(l) /\ ~starts_with_digit(l) /\ ~starts_with_cfn(l) /\ ~starts_with_calls(l)

\* CLAIM C28
\* When parse_callgrind_output has read cfn= and waits for calls=, a
\* non-empty line that is neither calls= nor a cost line takes it back to
\* the state before the cfn=, so that a calls= behind it starts no counting.
C28_OtherLineAfterCfnLeavesTheSubBlock ==
    [][(/\ phase = "lines"
        /\ parser = "parse_callgrind_output"
        /\ start_record /\ maybe_counting /\ ~start_counting
        /\ pos < Len(file)
        /\ PausingLine(file[pos + 1])
        /\ pos' = pos + 1)
       => (~maybe_counting' /\ ~start_counting')]_vars

\* CLAIM C29
\* When a line was counted and a non-empty line that is neither a cost line
\* nor cfn= follows it, no later line of the file is counted before a new
\* cfn= line and a calls= line behind it were read.
C29_PauseEndsTheCounting ==
    \A b \in 2..Len(file) :
        (b - 1 \in counted /\ ~is_empty(file[b]) /\ ~starts_with_digit(file[b])
         /\ ~starts_with_cfn(file[b])) =>
            \A j \in counted :
                j > b => \E c, d \in (b + 1)..(j - 1) :
                            c < d /\ starts_with_cfn(file[c]) /\ starts_with_calls(file[d])

\* The same of parse_callgrind_output alone, which holds.
C29_HoldsOfParseCallgrindOutput ==
    parser = "parse_callgrind_output" => C29_PauseEndsTheCounting

(***************************************************************************)
(* CallgrindOutput::parse_summary of callgrind/mod.rs: the counters of the *)
(* summary: or totals: line of a file.                                     *)
(***************************************************************************)
SummaryLine(nums) == Line("summary", <<>>, "", nums)    \* summary: <c0> <c1> ...
TotalsLine(nums) == Line("totals", <<>>, "", nums)      \* totals: <c0> <c1> ...

\* line.starts_with("summary:"), line.starts_with("totals:")
starts_with_summary(l) == l.kind = "summary"
starts_with_totals(l) == l.kind = "totals"

\* The first line behind `from` the loop of parse_summary breaks at, 0
\* without one.
FirstSummaryOrTotals(f, from) ==
    FirstOf({i \in (from + 1)..Len(f) : starts_with_summary(f[i]) \/ starts_with_totals(f[i])})

\* CallgrindOutput::parse_summary
parse_summary(f) ==
    LET i == FirstNonEmptyIn(f, 0)
        k == FirstSummaryOrTotals(f, i)
        nums == Take(f[k].cols, NumCounters)
    IN  IF i = 0 THEN ParseOutcome("panicked", ZeroCounters)
        ELSE IF k = 0 THEN ParseOutcome("parsed", ZeroCounters)
        ELSE IF ParsePanics(nums) THEN ParseOutcome("panicked", ZeroCounters)
        ELSE ParseOutcome("parsed", AddCounters(ZeroCounters, nums))

\* The lines of the files: the format line, an empty line, another line,
\* and summary: and totals: lines with two, with one, with ten numbers and
\* with something that is no number.
TotalsAlphabet ==
    {FormatLine, EmptyLine, OtherLine, SummaryLine(<<1, 2>>), TotalsLine(<<3>>),
     SummaryLine(<<1, 2, 3, 4, 5, 6, 7, 8, 9, 10>>), TotalsLine(<<4, -1>>)}

InitTotals ==
    /\ IdleParse
    /\ counters = ZeroCounters
    /\ IdleCosts
    /\ IdleRotate
    /\ IdleNames
    /\ IdleOrch
    /\ IdleExit
    /\ IdleArgs
    /\ IdleDiff
    /\ IdlePrint
    /\ IdleReg
    /\ IdlePath
    /\ IdleLast
    /\ totals_file \in SeqsUpTo(TotalsAlphabet, MaxLines)
    /\ totals_step = "given"
    /\ totals_stats = [phase |-> "none", counters |-> ZeroCounters]

\* CallgrindOutput::parse_summary of the file
ParseSummary ==
    /\ totals_step = "given"
    /\ totals_stats' = parse_summary(totals_file)
    /\ totals_step' = "done"
    /\ UNCHANGED totals_file
    /\ UNCHANGED notTotalsVars

NextTotals == ParseSummary

SpecTotals == InitTotals /\ [][NextTotals]_vars

\* The first nine numbers of a line, with 0 for the events without one.
NineOf(l) ==
    [e \in 1..NumCounters |-> IF e <= Len(l.cols) THEN l.cols[e] ELSE 0]

\* CLAIM C26
\* The counters parse_summary returns are the first nine numbers of the
\* first summary: or totals: line of the file, 0 for an event without a
\* number, whatever lines follow; they are all 0 for a file without such a
\* line.
C26_FirstSummaryOrTotalsLine ==
    (totals_step = "done" /\ totals_stats.phase = "parsed") =>
        LET k == FirstSummaryOrTotals(totals_file, 0)
        IN  totals_stats.counters = IF k = 0 THEN ZeroCounters ELSE NineOf(totals_file[k])

\* The same for the files whose first non-empty line is no summary: or
\* totals: line, which holds: parse_summary has taken that line for the
\* format line before it looks for the summary.
C26_HoldsBehindTheFirstLine ==
    (/\ FirstNonEmptyIn(totals_file, 0) # 0
     /\ FirstSummaryOrTotals(totals_file, 0) # FirstNonEmptyIn(totals_file, 0))
        => C26_FirstSummaryOrTotalsLine

IdleOlder ==
    /\ IdleParse
    /\ counters = ZeroCounters
    /\ IdleCosts
    /\ IdleRotate
    /\ IdleNames
    /\ IdleOrch
    /\ IdleExit
    /\ IdleArgs
    /\ IdleDiff
    /\ IdlePrint
    /\ IdleReg
    /\ IdleTotals
    /\ IdlePath

\* All parts but the two summarize are at rest.
IdleButForFormulas == IdleOlder /\ IdleHarness /\ IdleLogfile /\ IdleRace

\* All parts but the run of the harness and of the runner are at rest.
IdleButForHarness == IdleOlder /\ IdleFormulas /\ IdleLogfile /\ IdleRace

\* All parts but LogfileParser::parse_single are at rest.
IdleButForLogfile == IdleOlder /\ IdleFormulas /\ IdleHarness /\ IdleRace

\* All parts but the runners of the same output path are at rest.
IdleButForRace == IdleOlder /\ IdleFormulas /\ IdleHarness /\ IdleLogfile

(***************************************************************************)
(* The file names of the output paths: CallgrindOutput::create and         *)
(* ToolOutputPath::new, to_old_output and to_path.                         *)
(***************************************************************************)

\* The longest name ToolOutputPath::new puts between <tool>. and .out
ToolNameMaxLen == 200

\* The longest file name, in bytes
FileNameMaxLen == 255

\* Bounds of the names: their leading forbidden characters and their bytes after these.
MaxPad == 3
MaxNameBytes == 240

ValgrindTools == <<"DHAT", "Callgrind", "Memcheck", "Helgrind", "DRD", "Massif", "BBV">>

\* ValgrindTool::id
ValgrindTool_id(t) ==
    << <<"d", "h", "a", "t">>,
       <<"c", "a", "l", "l", "g", "r", "i", "n", "d">>,
       <<"m", "e", "m", "c", "h", "e", "c", "k">>,
       <<"h", "e", "l", "g", "r", "i", "n", "d">>,
       <<"d", "r", "d">>,
       <<"m", "a", "s", "s", "i", "f">>,
       <<"e", "x", "p", "-", "b", "b", "v">> >>[t]

Callgrind == 2

\* n characters of w bytes each
Chars(w, n) ==
    [i \in 1..(w * n) |-> IF (i - 1) % w = 0 THEN LeadingByte(w) ELSE ContinuationByte]

PathNames ==
    UNION {{[i \in 1..k |-> "/"] \o Chars(w, n) : k \in 0..MaxPad, n \in 0..(MaxNameBytes \div w)} :
              w \in 1..4}

\* Path::extension of a name given by its bytes: what follows the last dot of the file name, a dot at its start aside
extension_bytes(f) ==
    LET dots == {i \in 2..Len(f) : f[i] = "."}
    IN IF dots = {} THEN None
       ELSE SubSeq(f, (CHOOSE i \in dots : \A j \in dots : j <= i) + 1, Len(f))

\* Path::with_extension of a name given by its bytes
with_extension_bytes(f, ext) ==
    LET e == extension_bytes(f)
        stem == IF e = None THEN f ELSE Take(f, Len(f) - Len(e) - 1)
    IN stem \o <<".">> \o ext

OutExt == <<"o", "u", "t">>
OldExt == <<"o", "l", "d">>

\* CallgrindOutput::create: format!("callgrind.{}.out", truncate_str_utf8(&sanitized_name, 237))
\* and old_output: file.with_extension_bytes("out.old")
CallgrindOutput_create(name) ==
    LET sanitized_name == sanitize_with_options(name, FALSE, FALSE)
        cut == truncate_str_utf8(sanitized_name, OutNameMaxLen)
        f == ValgrindTool_id(Callgrind) \o <<".">> \o cut \o <<".">> \o OutExt
    IN [name |-> cut, file |-> f, old |-> with_extension_bytes(f, OutExt \o <<".">> \o OldExt)]

\* ToolOutputPath::new
ToolOutputPath_new(tool, name) ==
    LET sanitized_name == sanitize_with_options(name, FALSE, FALSE)
    IN [tool |-> tool,
        name |-> truncate_str_utf8(sanitized_name, ToolNameMaxLen),
        extension |-> OutExt]

\* ToolOutputPath::to_old_output
to_old_output(p) ==
    [p EXCEPT !.extension =
        IF extension_bytes(@) = OldExt THEN @ ELSE @ \o <<".">> \o OldExt]

\* ToolOutputPath::to_path, its file name
to_path(p) == ValgrindTool_id(p.tool) \o <<".">> \o p.name \o <<".">> \o p.extension

InitPath ==
    /\ IdleParse
    /\ counters = ZeroCounters
    /\ IdleCosts
    /\ IdleRotate
    /\ IdleNames
    /\ IdleOrch
    /\ IdleExit
    /\ IdleArgs
    /\ IdleDiff
    /\ IdlePrint
    /\ IdleReg
    /\ IdleTotals
    /\ IdleLast
    /\ \/ path_impl = "CallgrindOutput" /\ path_tool = Callgrind
       \/ path_impl = "ToolOutputPath" /\ path_tool \in 1..Len(ValgrindTools)
    /\ path_name \in PathNames
    /\ path_step = "given"
    /\ path_files = [name |-> <<>>, file |-> <<>>, old |-> <<>>]

\* CallgrindOutput::create(base_dir, module, name)
CreateOutput ==
    /\ path_step = "given"
    /\ path_impl = "CallgrindOutput"
    /\ path_step' = "made"
    /\ path_files' = CallgrindOutput_create(path_name)
    /\ UNCHANGED <<path_impl, path_tool, path_name, notPathVars>>

\* ToolOutputPath::new(tool, base_dir, module, name), then to_path of it and of its
\* to_old_output
NewToolOutputPath ==
    /\ path_step = "given"
    /\ path_impl = "ToolOutputPath"
    /\ path_step' = "made"
    /\ LET p == ToolOutputPath_new(path_tool, path_name)
       IN path_files' = [name |-> p.name, file |-> to_path(p),
                         old |-> to_path(to_old_output(p))]
    /\ UNCHANGED <<path_impl, path_tool, path_name, notPathVars>>

NextPath == CreateOutput \/ NewToolOutputPath

SpecPath == InitPath /\ [][NextPath]_vars

\* The number of bytes a path keeps of the name
NameMaxLenOf(impl) == IF impl = "CallgrindOutput" THEN OutNameMaxLen ELSE ToolNameMaxLen

\* CLAIM C27: for every name of a benchmark and every tool, the file name of the output
\* and the file name of its old output (<tool>.<name>.out.old) are at most 255 bytes
\* long, and the name is cut between two characters of the sanitized name, never inside
\* one.
C27_FileNamesFit ==
    path_step = "made" =>
        LET sanitized_name == sanitize_with_options(path_name, FALSE, FALSE) IN
        /\ Len(path_files.file) <= FileNameMaxLen
        /\ Len(path_files.old) <= FileNameMaxLen
        /\ path_files.old = path_files.file \o <<".">> \o OldExt
        /\ IsPrefix(path_files.name, sanitized_name)
        /\ is_char_boundary(sanitized_name, Len(path_files.name))

\* A name longer than the path keeps, whose byte at the limit is inside a character, was
\* made into the file names.
C27_Witness ==
    LET sanitized_name == sanitize_with_options(path_name, FALSE, FALSE) IN
    /\ path_step = "made"
    /\ Len(sanitized_name) > NameMaxLenOf(path_impl)
    /\ ~is_char_boundary(sanitized_name, NameMaxLenOf(path_impl))
    /\ Len(path_files.name) < NameMaxLenOf(path_impl)

(***************************************************************************)
(* The output path between the rotation and the run of valgrind.           *)
(***************************************************************************)

\* CLAIM C30: after the rotation and before valgrind writes its output, no file exists
\* at the path of the output: what the run before wrote exists as the .old file only.
C30_NoLiveFileAfterRotation ==
    step = "created" => ~Exists(fs, Out)

\* What holds instead: the rotation by ToolOutputPath::move_old leaves no file at the
\* path of the output, and the rotation by copy leaves there what it found.
C30_HoldsOfMoveOld ==
    step = "created" =>
        /\ rotation = "move_old" => ~Exists(fs, Out)
        /\ rotation = "create" => fs[Out] = fs_before[Out]

(***************************************************************************)
(* The factor of a CostsDiff.                                              *)
(***************************************************************************)

\* The CostsDiff of the summary that have a new and an old cost
BothPresent == {k \in DOMAIN costs_summary :
                    costs_summary[k].new # <<>> /\ costs_summary[k].old # <<>>}

\* CLAIM C31: a CostsDiff with a new and an old cost has no factor when the old cost is
\* 0, and the factor new / old when the old cost is not 0.
C31_NoFactorOfOldZero ==
    summary_step = "done" =>
        \A k \in BothPresent :
            LET d == costs_summary[k] IN
            /\ d.old[1] = 0 => d.factor = <<>>
            /\ d.old[1] # 0 => d.factor = Some(F64Quotient(to_f64(d.new[1]), to_f64(d.old[1])))

\* What holds instead: the factor is present whenever both costs are, and is the quotient
\* of the two as f64, also of an old cost of 0.
C31_FactorAlwaysPresentWithBoth ==
    summary_step = "done" =>
        \A k \in BothPresent :
            LET d == costs_summary[k] IN
            d.factor = Some(F64Quotient(to_f64(d.new[1]), to_f64(d.old[1])))

(***************************************************************************)
(* The two formulations of the cost model, CallgrindStats::summarize of    *)
(* lib.rs and of callgrind/mod.rs, on the same counters.                   *)
(***************************************************************************)

\* The largest of the small counters.
MaxCounter == 4

\* The values of a counter; the instructions can also be the largest u64.
CounterValues == {0, 1, MaxCounter}

BothCounters ==
    {cs \in [1..NumCounters -> CounterValues \cup {U64 - 1}] :
        \A i \in 2..NumCounters : cs[i] \in CounterValues}

InitFormulas ==
    /\ IdleButForFormulas
    /\ both_counters \in BothCounters
    /\ both_step = "given"
    /\ both_summaries = <<>>

\* self.summarize() of lib.rs and of callgrind/mod.rs, each in a build with or without
\* overflow checks
SummarizeBoth ==
    /\ both_step = "given"
    /\ \E lib_checks \in BOOLEAN, mod_checks \in BOOLEAN :
           both_summaries' = [lib_rs |-> lib_summarize(both_counters, lib_checks),
                              mod_rs |-> summarize(both_counters, mod_checks)]
    /\ both_step' = "summarized"
    /\ UNCHANGED <<both_counters, notFormulasVars>>

NextFormulas == SummarizeBoth

SpecFormulas == InitFormulas /\ [][NextFormulas]_vars

\* Both formulations returned a summary.
BothDefined ==
    /\ both_step = "summarized"
    /\ both_summaries.lib_rs.state = "summary"
    /\ both_summaries.mod_rs.state = "summary"

\* CLAIM C32: on the counters for which both formulations return a summary, l1_hits of
\* callgrind/mod.rs is Ir + l1_data_hits of lib.rs, both have the same l3_hits, ram_hits,
\* total_memory_rw and cycles, and the cycles are l1_hits + 5 * l3_hits + 35 * ram_hits.
C32_FormulationsAgree ==
    BothDefined =>
        LET l == both_summaries.lib_rs
            m == both_summaries.mod_rs
        IN  /\ m.l1_hits = (l.instructions + l.l1_data_hits) % U64
            /\ m.instructions = l.instructions
            /\ m.l3_hits = l.l3_hits
            /\ m.ram_hits = l.ram_hits
            /\ m.total_memory_rw = l.total_memory_rw
            /\ m.cycles = l.cycles
            /\ m.cycles = (m.l1_hits + 5 * m.l3_hits + 35 * m.ram_hits) % U64

\* Both formulations summarized counters with instructions and with hits of the data on
\* all three levels, and no operation left the range of u64.
C32_Witness ==
    /\ BothDefined
    /\ both_counters[1] > 0
    /\ both_summaries.lib_rs.l1_data_hits > 0
    /\ both_summaries.lib_rs.l3_hits > 0
    /\ both_summaries.lib_rs.ram_hits > 0
    /\ both_summaries.mod_rs.cycles =
           both_summaries.mod_rs.l1_hits + 5 * both_summaries.mod_rs.l3_hits
               + 35 * both_summaries.mod_rs.ram_hits

(***************************************************************************)
(* The text of a printed percentage.                                       *)
(***************************************************************************)

\* The index of the first character of t that is c, 0 without one.
IndexOf(t, c) ==
    LET at == {i \in 1..Len(t) : t[i] = c} IN
    IF at = {} THEN 0 ELSE CHOOSE i \in at : \A j \in at : i <= j

\* The characters of t between its decimal point and its last character.
FractionalDigits(t) ==
    IF IndexOf(t, ".") = 0 THEN <<>> ELSE SubSeq(t, IndexOf(t, ".") + 1, Len(t) - 1)

\* The first character of t that is no space.
FirstShown(t) ==
    LET at == {i \in 1..Len(t) : t[i] # " "} IN
    t[CHOOSE i \in at : \A j \in at : i <= j]

IsDigit(c) == \E i \in 1..Len(Digits) : Digits[i] = c

\* A percentage was printed.
PercentagePrinted == print_step = "printed" /\ print_delta.pct # <<>>

\* The number of fractional digits of the magnitude of the quotient x.
DigitsOfMagnitude(x) ==
    IF x.den = 0 THEN 0
    ELSE LET a == Abs(x.num) IN
         IF a < 10 * x.den THEN 6
         ELSE IF a < 100 * x.den THEN 5
         ELSE IF a \div 1000 < x.den THEN 4
         ELSE IF a \div 10000 < x.den THEN 3
         ELSE IF a \div 100000 < x.den THEN 2
         ELSE IF a \div 1000000 < x.den THEN 1
         ELSE 0

\* CLAIM C33: a printed percentage begins with its sign and has the number of fractional
\* digits of its magnitude: 6 below 10, 5 below 100, 4 below 1000, 3 below 10^4, 2 below
\* 10^5, 1 below 10^6 and none from there on.
C33_DigitsOfTheMagnitude ==
    PercentagePrinted =>
        LET t == print_delta.text
            f == FractionalDigits(t)
        IN  /\ FirstShown(t) \in {"+", "-"}
            /\ t[Len(t)] = "%"
            /\ Len(f) = DigitsOfMagnitude(print_delta.pct[1])
            /\ \A i \in 1..Len(f) : IsDigit(f[i])

\* A percentage of each number of fractional digits was printed (the witness names the
\* one with five digits, which the row of 110 against 100 has).
C33_Witness ==
    /\ PercentagePrinted
    /\ Len(FractionalDigits(print_delta.text)) = 5
    /\ print_delta.pct[1].num = 10 * print_delta.pct[1].den

\* The row of the scenario: 110 of this run against 100 of the run before.
ScenarioRow == print_step = "printed" /\ print_new = 110 /\ print_old = Some(100)

\* CLAIM C34, as stated: the difference of 110 new cycles against 100 old cycles is
\* printed as +10.0000% in red.
C34_TenPercentFourDigits ==
    ScenarioRow =>
        /\ print_delta.text = <<"+", "1", "0", ".", "0", "0", "0", "0", "%">>
        /\ print_delta.color = "bright_red"

\* CLAIM C34, amended: the difference of 110 new cycles against 100 old cycles is printed
\* as +10.00000% in red: a percentage from 10 on and below 100 has five fractional digits.
C34_TenPercentFiveDigits ==
    ScenarioRow =>
        /\ print_delta.text = <<"+", "1", "0", ".", "0", "0", "0", "0", "0", "%">>
        /\ print_delta.color = "bright_red"

\* The row of the scenario was printed.
C34_Witness == ScenarioRow /\ print_delta.pct = Some(F64Quotient(1000, 100))

(***************************************************************************)
(* The harness that main! of macros.rs expands to, and the runner it       *)
(* starts: Config::new, run and run_bench of lib.rs.                       *)
(***************************************************************************)

\* The most benchmarks given to main!.
MaxFns == 3

FnName(k) == <<"bench_a", "bench_b", "bench_c", "bench_d", "bench_e">>[k]

\* An argument key=value, and one without a = (its key is "none").
KeyValue(key, value) == [key |-> key, value |-> value]
Plain(value) == KeyValue("none", value)

\* arg.split_once('=')
split_once(arg) == IF arg.key = "none" THEN None ELSE <<arg.key, arg.value>>

\* The path of the harness, module_path!() in it, and the version of the runner.
HarnessExe == Plain("target/release/deps/my_bench")
ModulePath == Plain("my_bench")
RunnerVersion == Plain("0.3.1")
OtherVersion == Plain("0.2.0")
BenchFile == Plain("benches/my_bench.rs")

\* The lists of names given to main!: no name twice.
BenchmarkLists ==
    {l \in UNION {[1..n -> {FnName(k) : k \in 1..MaxFns}] : n \in 1..MaxFns} :
        \A i, j \in 1..Len(l) : l[i] = l[j] => i = j}

\* What cargo bench passes to the harness after its path.
CargoArgs == {<<>>, <<Plain("--bench")>>}

\* std::env::args() of the harness
HarnessArgs == {<<HarnessExe>> \o c : c \in CargoArgs}

\* for bench in benchmarks { cmd.arg(format!("--iai-bench={}", bench.0)); }
BenchArgs(l) == [i \in 1..Len(l) |-> KeyValue("--iai-bench", l[i])]

\* run of main!: cmd.arg(module_path!()), the --iai-bench arguments, cmd.args(this_args)
main_run_args(l, this_args) == <<ModulePath>> \o BenchArgs(l) \o this_args

\* The arguments Config::new reads: the version of the library, the file of the
\* benchmarks and the module before the --iai-bench arguments and the harness
ArgsAsRead(version, l, this_args) ==
    <<version, BenchFile, ModulePath>> \o BenchArgs(l) \o this_args

\* The command lines the runner is started with by hand: the arguments as Config::new
\* reads them, and every beginning of them.
CommandLines(l) ==
    UNION {{Take(ArgsAsRead(v, l, a), n) : n \in 0..Len(ArgsAsRead(v, l, a))} :
              v \in {RunnerVersion, OtherVersion}, a \in HarnessArgs}

\* main of main!: with --iai-run as first argument the benchmark of the index that
\* follows is called, otherwise run starts the runner
harness_main(l, args) ==
    IF Len(args) >= 1 /\ args[1] = Plain("--iai-run")
    THEN IF Len(args) >= 2 /\ args[2].key = "usize"
         THEN IF args[2].value < Len(l)
              THEN [does |-> "benchmark", function |-> l[args[2].value + 1]]
              ELSE [does |-> "panic", function |-> "index out of bounds"]
         ELSE [does |-> "panic", function |-> "Error parsing index"]
    ELSE [does |-> "run", function |-> "iai-callgrind-runner"]

NoConfig == [library_version |-> None, bench_file |-> None, module |-> None,
             benches |-> <<>>, executable |-> None]

InitHarness ==
    /\ IdleButForHarness
    /\ benchmarks \in BenchmarkLists
    /\ \/ /\ started_by = "main!"
          /\ \E this_args \in HarnessArgs :
                 /\ harness_main(benchmarks, Tail(this_args)).does = "run"
                 /\ runner_args = main_run_args(benchmarks, this_args)
          /\ runner_starts = 1
       \/ /\ started_by = "command line"
          /\ runner_args \in CommandLines(benchmarks)
          /\ runner_starts = 0
    /\ runner_step = "start"
    /\ scanned = 0
    /\ config = NoConfig
    /\ bench_index = 0
    /\ iai_runs = <<>>

\* Config::new: let library_version = args_iter.next().unwrap(); bench_file and module
\* likewise
ConfigNewHead ==
    /\ runner_step = "start"
    /\ IF Len(runner_args) < 3
       THEN /\ runner_step' = "panicked"
            /\ scanned' = Len(runner_args)
            /\ UNCHANGED config
       ELSE /\ runner_step' = "scanning"
            /\ scanned' = 3
            /\ config' = [config EXCEPT !.library_version = runner_args[1],
                                        !.bench_file = runner_args[2],
                                        !.module = runner_args[3]]
    /\ UNCHANGED <<benchmarks, started_by, runner_args, bench_index, iai_runs, runner_starts,
                   notHarnessVars>>

\* One turn of the loop of Config::new: if let Some(arg) = args_iter.next() { match .. };
\* without an argument the body is skipped and the loop turns again
ConfigNewLoop ==
    /\ runner_step = "scanning"
    /\ IF scanned < Len(runner_args)
       THEN LET arg == runner_args[scanned + 1] IN
            /\ scanned' = scanned + 1
            /\ IF split_once(arg) # None /\ split_once(arg)[1] = "--iai-bench"
               THEN /\ config' = [config EXCEPT !.benches = Append(@, arg.value)]
                    /\ UNCHANGED runner_step
               ELSE /\ config' = [config EXCEPT !.executable = arg]
                    /\ runner_step' = "configured"
       ELSE UNCHANGED <<scanned, config, runner_step>>
    /\ UNCHANGED <<benchmarks, started_by, runner_args, bench_index, iai_runs, runner_starts,
                   notHarnessVars>>

\* run: the comparison of the two versions
VersionCompare ==
    /\ runner_step = "configured"
    /\ runner_step' = IF config.library_version = RunnerVersion THEN "running"
                      ELSE "VersionMismatch"
    /\ UNCHANGED <<benchmarks, started_by, runner_args, scanned, config, bench_index, iai_runs,
                   runner_starts, notHarnessVars>>

\* run_bench(index, name, &config): valgrind runs config.executable with --iai-run, the
\* index and module::name; the harness that is started so does what its main does
RunBench ==
    /\ runner_step = "running"
    /\ bench_index < Len(config.benches)
    /\ IF config.executable = HarnessExe
       THEN LET did == harness_main(benchmarks,
                           <<Plain("--iai-run"), KeyValue("usize", bench_index),
                             Plain(config.benches[bench_index + 1])>>)
            IN  /\ iai_runs' = Append(iai_runs, [index |-> bench_index,
                                                 name |-> config.benches[bench_index + 1],
                                                 did |-> did])
                /\ runner_starts' = IF did.does = "run" THEN runner_starts + 1
                                    ELSE runner_starts
                /\ IF did.does = "benchmark"
                   THEN bench_index' = bench_index + 1 /\ UNCHANGED runner_step
                   ELSE runner_step' = "CallgrindLaunchError" /\ UNCHANGED bench_index
       ELSE /\ runner_step' = "CallgrindLaunchError"
            /\ UNCHANGED <<iai_runs, runner_starts, bench_index>>
    /\ UNCHANGED <<benchmarks, started_by, runner_args, scanned, config, notHarnessVars>>

\* run: Ok(()) after the last benchmark
RunReturns ==
    /\ runner_step = "running"
    /\ bench_index = Len(config.benches)
    /\ runner_step' = "done"
    /\ UNCHANGED <<benchmarks, started_by, runner_args, scanned, config, bench_index, iai_runs,
                   runner_starts, notHarnessVars>>

NextHarness ==
    \/ ConfigNewHead
    \/ ConfigNewLoop
    \/ VersionCompare
    \/ RunBench
    \/ RunReturns

SpecHarness == InitHarness /\ [][NextHarness]_vars

\* The runner with its steps taken as long as one can be.
SpecHarnessFair == SpecHarness /\ WF_vars(NextHarness)

\* Config::new has returned.
ConfigReturned == runner_step \in {"configured", "VersionMismatch", "running", "done",
                               "CallgrindLaunchError"}

\* The runner was started by hand with all the arguments Config::new reads.
StartedAsRead == started_by = "command line"

\* C38 on a state: the benchmark the runner has at an index is the one the harness has
\* there; every harness started with --iai-run called the function of the name the
\* runner ran it for, and nothing else; no benchmark was run twice; and no such harness
\* started the runner.
IndexIsThePosition ==
    /\ ConfigReturned =>
           \A i \in 1..Len(config.benches) :
               i <= Len(benchmarks) /\ config.benches[i] = benchmarks[i]
    /\ \A r \in 1..Len(iai_runs) :
           /\ iai_runs[r].did = [does |-> "benchmark", function |-> iai_runs[r].name]
           /\ iai_runs[r].name = benchmarks[iai_runs[r].index + 1]
           /\ \A q \in 1..Len(iai_runs) : iai_runs[q].name = iai_runs[r].name => q = r
    /\ runner_starts = IF started_by = "main!" THEN 1 ELSE 0

C38_HoldsOfTheArgumentsAsRead == StartedAsRead => IndexIsThePosition

\* CLAIM C39: the loop of Config::new over the arguments ends for every list of
\* arguments: also when the arguments end before one that is no --iai-bench=<name>.
C39_ScanTerminates == (runner_step = "scanning") ~> (runner_step # "scanning")

\* What holds instead: the loop ends when an argument that is no --iai-bench=<name> is
\* still to come.
C39_ScanEndsAtTheExecutable ==
    (/\ runner_step = "scanning"
     /\ \E i \in (scanned + 1)..Len(runner_args) : runner_args[i].key # "--iai-bench")
        ~> (runner_step = "configured")

(***************************************************************************)
(* LogfileParser::parse_single of tool/logfile_parser.rs.  A line of a log *)
(* file is the prefix ==<pid>== of valgrind, or none, the space after it,  *)
(* and a text, which is a key and a value when it has a colon.             *)
(***************************************************************************)

\* The most lines of a log file after its first line.
MaxLogLines == 4

LogLine(pid, space, key, value) == [pid |-> pid, space |-> space, key |-> key, value |-> value]

BlankLine == LogLine(FALSE, FALSE, "", "")                         \* an empty line
OutputLine == LogLine(FALSE, FALSE, "", "output")                  \* a line without prefix
BarePrefixLine == LogLine(TRUE, FALSE, "", "")                     \* ==1==
PrefixLine == LogLine(TRUE, TRUE, "", "")                          \* ==1== and a space
TextLine == LogLine(TRUE, TRUE, "", "text")                        \* ==1== text
CommandLine == LogLine(TRUE, TRUE, "Command", "./bench")           \* ==1== Command: ./bench
ParentPidLine == LogLine(TRUE, TRUE, "Parent PID", "7")            \* ==1== Parent PID: 7
ErrorSummaryLine == LogLine(TRUE, TRUE, "ERROR SUMMARY", "0 errors") \* ==1== ERROR SUMMARY: ..

\* str::trim().is_empty()
trim_is_empty(l) == ~l.pid /\ l.key = "" /\ l.value = ""

\* EMPTY_LINE_RE.is_match
EMPTY_LINE_RE(l) == l.pid /\ l.key = "" /\ l.value = ""

\* EXTRACT_FIELDS_RE.captures is Some
EXTRACT_FIELDS_RE(l) == l.pid /\ l.key # ""

\* STRIP_PREFIX_RE.captures is Some, and the capture rest
STRIP_PREFIX_RE(l) == l.pid /\ l.space
rest_of_line(l) == LogLine(FALSE, FALSE, l.key, l.value)

\* EXTRACT_PID_RE.captures is Some
EXTRACT_PID_RE(l) == l.pid

\* str::to_ascii_lowercase of a key
to_ascii_lowercase(k) ==
    IF k = "Command" THEN "command"
    ELSE IF k = "Parent PID" THEN "parent pid"
    ELSE IF k = "ERROR SUMMARY" THEN "error summary"
    ELSE k

LogStates == <<"Header", "HeaderSpace", "Body">>

\* The parse before its first line: state, command, fields, body, error_summary, and the
\* history of the state after every line.
LogStart ==
    [state |-> "Header", command |-> None, fields |-> <<>>, body |-> <<>>,
     error_summary |-> None, states |-> <<>>]

\* The body of the loop of parse_single: match &state { .. } on one line
log_line(st, line) ==
    IF st.state = "Header" /\ ~EMPTY_LINE_RE(line) THEN
        IF EXTRACT_FIELDS_RE(line) /\ to_ascii_lowercase(line.key) = "command"
        THEN [st EXCEPT !.command = Some(line.value)]
        ELSE IF EXTRACT_FIELDS_RE(line) /\ to_ascii_lowercase(line.key) = "parent pid"
        THEN [st EXCEPT !.fields = Append(@, <<line.key, line.value>>)]
        ELSE st
    ELSE IF st.state = "Header" THEN [st EXCEPT !.state = "HeaderSpace"]
    ELSE IF st.state = "HeaderSpace" /\ EMPTY_LINE_RE(line) THEN st
    ELSE LET b == [st EXCEPT !.state = "Body"] IN
         IF EXTRACT_FIELDS_RE(line) /\ to_ascii_lowercase(line.key) = "error summary"
         THEN [b EXCEPT !.error_summary = Some(line.value)]
         ELSE IF STRIP_PREFIX_RE(line)
         THEN [b EXCEPT !.body = Append(@, rest_of_line(line))]
         ELSE [b EXCEPT !.body = Append(@, line)]

\* for line in iter { .. }, from line i on
RECURSIVE log_lines_from(_, _, _)
log_lines_from(f, i, st) ==
    IF i > Len(f) THEN st
    ELSE LET next == log_line(st, f[i])
         IN  log_lines_from(f, i + 1, [next EXCEPT !.states = Append(@, next.state)])

\* while let Some(last) = body.last() { if last.trim().is_empty() { body.pop(); } .. }
RECURSIVE pop_empty(_)
pop_empty(b) ==
    IF Len(b) > 0 /\ trim_is_empty(b[Len(b)]) THEN pop_empty(SubSeq(b, 1, Len(b) - 1)) ELSE b

\* skip_while(|l| l.trim().is_empty()): the index of the first line that is kept, or the
\* length of the file and one
RECURSIVE skip_while_empty(_, _)
skip_while_empty(f, i) ==
    IF i <= Len(f) /\ trim_is_empty(f[i]) THEN skip_while_empty(f, i + 1) ELSE i

\* LogfileParser::parse_single of the file with the lines f
parse_single(f) ==
    LET first == skip_while_empty(f, 1) IN
    IF first > Len(f) THEN [LogStart EXCEPT !.state = "ParseError"]
    ELSE IF ~EXTRACT_PID_RE(f[first]) THEN [LogStart EXCEPT !.state = "panic"]
    ELSE LET st == log_lines_from(f, first + 1, LogStart) IN
         IF st.command = None THEN [st EXCEPT !.state = "panic"]
         ELSE [st EXCEPT !.state = "Ok", !.body = pop_empty(@)]

LogAlphabet == {BarePrefixLine, PrefixLine, TextLine, CommandLine, ParentPidLine,
                ErrorSummaryLine}

\* The log files: empty lines or none, a first line with or without the pid, and lines.
LogFiles ==
    {b \o rest : b \in {<<>>, <<BlankLine>>},
                 rest \in {<<>>} \cup {<<first>> \o ls : first \in {TextLine, OutputLine},
                                                         ls \in SeqsUpTo(LogAlphabet, MaxLogLines)}}

InitLogfile ==
    /\ IdleButForLogfile
    /\ log_lines \in LogFiles
    /\ log_step = "given"
    /\ log_summary = <<>>

\* self.parse_single(path)
ParseSingle ==
    /\ log_step = "given"
    /\ log_summary' = parse_single(log_lines)
    /\ log_step' = "returned"
    /\ UNCHANGED <<log_lines, notLogfileVars>>

NextLogfile == ParseSingle

SpecLogfile == InitLogfile /\ [][NextLogfile]_vars

\* The index of the first line of the file that is not empty.
LogFirst == skip_while_empty(log_lines, 1)

\* The least of a set of indexes, or the length of the file and one.
LeastOr(I) == IF I = {} THEN Len(log_lines) + 1 ELSE CHOOSE i \in I : \A j \in I : i <= j

\* The index of the first line after the first that is a prefix only, and of the first
\* line after it that is not.
HeaderEnd == LeastOr({i \in (LogFirst + 1)..Len(log_lines) : EMPTY_LINE_RE(log_lines[i])})
BodyStart == LeastOr({i \in (HeaderEnd + 1)..Len(log_lines) : ~EMPTY_LINE_RE(log_lines[i])})

HasKey(l, k) == l.pid /\ to_ascii_lowercase(l.key) = k

\* The lines of the header with the key k, and the lines of the body with it.
HeaderLinesWith(k) == {i \in (LogFirst + 1)..(HeaderEnd - 1) : HasKey(log_lines[i], k)}
BodyLinesWith(k) == {i \in BodyStart..Len(log_lines) : HasKey(log_lines[i], k)}

\* The value of the last of the lines I, or None.
LastValue(I) ==
    IF I = {} THEN None ELSE Some(log_lines[CHOOSE i \in I : \A j \in I : j <= i].value)

IsNoErrorSummary(l) == ~HasKey(l, "error summary")
IsParentPid(l) == HasKey(l, "parent pid")

\* The lines from the start of the body on, but for those of the error summary, each
\* without its prefix when a space follows the prefix.
BodyLines ==
    LET kept == SelectSeq(SubSeq(log_lines, BodyStart, Len(log_lines)), IsNoErrorSummary)
    IN  [i \in 1..Len(kept) |->
            IF kept[i].pid /\ kept[i].space THEN LogLine(FALSE, FALSE, kept[i].key, kept[i].value)
            ELSE kept[i]]

\* parse_single went through the lines of the file.
LogParsed == log_step = "returned" /\ log_summary.state \in {"Ok", "panic"}
                /\ LogFirst <= Len(log_lines) /\ log_lines[LogFirst].pid

StateRank(st) == CHOOSE r \in 1..3 : LogStates[r] = st

\* What parse_single returned is what the claim tells of the lines of the file, the end
\* of the body aside.
ParsedAsTold ==
    LET st == log_summary IN
    /\ Len(st.states) = Len(log_lines) - LogFirst
    /\ \A i, j \in 1..Len(st.states) :
           i <= j => StateRank(st.states[i]) <= StateRank(st.states[j])
    /\ \A i \in 1..Len(st.states) :
           st.states[i] = IF LogFirst + i < HeaderEnd THEN "Header"
                          ELSE IF LogFirst + i < BodyStart THEN "HeaderSpace"
                          ELSE "Body"
    /\ st.command = LastValue(HeaderLinesWith("command"))
    /\ st.fields =
           [i \in 1..Len(SelectSeq(SubSeq(log_lines, LogFirst + 1, HeaderEnd - 1), IsParentPid))
               |-> <<"Parent PID", "7">>]
    /\ st.error_summary = LastValue(BodyLinesWith("error summary"))
    /\ IsPrefix(st.body, BodyLines)
    /\ \A i \in (Len(st.body) + 1)..Len(BodyLines) :
           st.state = "Ok" /\ trim_is_empty(BodyLines[i])
    /\ st.state = "Ok" <=> st.command # None

\* CLAIM C40: the state of the log file parser goes from Header to HeaderSpace to Body and
\* never back; command and parent pid are taken from the lines of the header before the
\* first empty line, which is a line of the prefix only; every line after the empty lines
\* that follow the header goes to the body, but for the lines of the error summary, whose
\* value is kept apart; and the body that is returned does not end with an empty line.
C40_HeaderThenSpaceThenBody ==
    LogParsed =>
        /\ ParsedAsTold
        /\ log_summary.state = "Ok" /\ Len(log_summary.body) > 0 =>
               LET last == log_summary.body[Len(log_summary.body)]
               IN  ~trim_is_empty(last) /\ ~EMPTY_LINE_RE(last)

\* What holds instead: the same with a body that does not end with an empty string; a
\* line that is the prefix without a space after it is in the body with its prefix, and
\* can be its last line.
C40_HoldsOfEmptyStrings ==
    LogParsed =>
        /\ ParsedAsTold
        /\ log_summary.state = "Ok" /\ Len(log_summary.body) > 0 =>
               ~trim_is_empty(log_summary.body[Len(log_summary.body)])

(***************************************************************************)
(* Runners of the same output path at the same time.  Every runner is a    *)
(* process of its own: ToolOutputPath::init of tool/mod.rs, the run of     *)
(* valgrind and the read of the old output, one system call per step.  The *)
(* files are <path>, <path>.old, <path>.old.old, ..; their contents are    *)
(* <<r, Out>>, what run r wrote to the output file.                        *)
(***************************************************************************)
MaxRunners == 2
RaceRunners == 1..MaxRunners

\* What the run before the runners wrote, and what the run before that one wrote.
PriorOutput == <<0, Out>>
OlderOutput == <<-1, Out>>

\* <path> with k extensions .old
OldsName(k) == Out \o [i \in 1..k |-> "old"]
RaceNames == {OldsName(k) : k \in 0..(MaxRunners + 2)}

\* glob(pattern): the files that match, read from the directory at once, in the order of
\* their names
RECURSIVE globbed(_, _, _)
globbed(f, olds, k) ==
    IF k > MaxRunners + 2 THEN <<>>
    ELSE (IF Exists(f, OldsName(k)) /\ (olds => GlobPathOld(OldsName(k), "out"))
          THEN <<OldsName(k)>> ELSE <<>>) \o globbed(f, olds, k + 1)

\* glob("<path>*.old") and glob("<path>*")
glob_old(f) == globbed(f, TRUE, 0)
glob_all(f) == globbed(f, FALSE, 0)

\* a remove_file that leaves the file where it is
remove_file_KeepsTheFile(f, n) == f

\* std::fs::remove_file(entry) of a file that exists
remove_file(f, n) == [f EXCEPT ![n] = NoFile]

\* std::fs::rename(entry, to) of a file that exists: a file at `to` is replaced
rename(f, n, to) == [m \in DOMAIN f |-> IF m = n THEN NoFile ELSE IF m = to THEN f[n] ELSE f[m]]

RacePositions == {"start", "removing", "renaming", "ran", "done", "failed"}
NoName == <<>>

InitRace ==
    /\ IdleButForRace
    /\ \E old \in {NoFile, OlderOutput} :
           race_fs = [n \in RaceNames |-> IF n = Out THEN PriorOutput
                                          ELSE IF n = OutOld THEN old ELSE NoFile]
    /\ race_pc = [r \in RaceRunners |-> "start"]
    /\ race_list = [r \in RaceRunners |-> <<>>]
    /\ race_prior = [r \in RaceRunners |-> NoFile]
    /\ race_compared = [r \in RaceRunners |-> NoFile]
    /\ race_missed = [r \in RaceRunners |-> NoName]
    /\ race_taken = [n \in RaceNames |-> {}]
    /\ race_overlap = FALSE

\* move_old: glob(&format!("{}*.old", path.display()))
RaceBegin(r) ==
    /\ race_pc[r] = "start"
    /\ race_prior' = [race_prior EXCEPT ![r] = race_fs[Out]]
    /\ race_list' = [race_list EXCEPT ![r] = glob_old(race_fs)]
    /\ race_pc' = [race_pc EXCEPT ![r] = "removing"]
    /\ race_overlap' = (race_overlap \/ \E q \in RaceRunners \ {r} :
                                            race_pc[q] \notin {"start", "done", "failed"})
    /\ UNCHANGED <<race_fs, race_compared, race_missed, race_taken, notRaceVars>>

\* The entry of the glob that runner r handles next is gone: .unwrap() panics.
RaceFails(r) ==
    /\ race_pc' = [race_pc EXCEPT ![r] = "failed"]
    /\ race_missed' = [race_missed EXCEPT ![r] = Head(race_list[r])]
    /\ UNCHANGED <<race_fs, race_taken>>

\* move_old: std::fs::remove_file(entry).unwrap()
RaceRemove(r) ==
    /\ race_pc[r] = "removing"
    /\ race_list[r] # <<>>
    /\ LET entry == Head(race_list[r]) IN
       IF Exists(race_fs, entry)
       THEN /\ race_fs' = remove_file(race_fs, entry)
            /\ race_taken' = [race_taken EXCEPT ![entry] = @ \cup {r}]
            /\ UNCHANGED <<race_pc, race_missed>>
       ELSE RaceFails(r)
    /\ race_list' = [race_list EXCEPT ![r] = Tail(@)]
    /\ UNCHANGED <<race_prior, race_compared, race_overlap, notRaceVars>>

\* move_old: glob(&format!("{}*", path.display()))
RaceGlob(r) ==
    /\ race_pc[r] = "removing"
    /\ race_list[r] = <<>>
    /\ race_list' = [race_list EXCEPT ![r] = glob_all(race_fs)]
    /\ race_pc' = [race_pc EXCEPT ![r] = "renaming"]
    /\ UNCHANGED <<race_fs, race_prior, race_compared, race_missed, race_taken, race_overlap,
                   notRaceVars>>

\* move_old: std::fs::rename(&entry, entry.with_extension(extension)).unwrap()
RaceRename(r) ==
    /\ race_pc[r] = "renaming"
    /\ race_list[r] # <<>>
    /\ LET entry == Head(race_list[r]) IN
       IF Exists(race_fs, entry)
       THEN /\ race_fs' = rename(race_fs, entry, OldNameOf(entry))
            /\ race_taken' = [race_taken EXCEPT ![entry] = @ \cup {r}]
            /\ UNCHANGED <<race_pc, race_missed>>
       ELSE RaceFails(r)
    /\ race_list' = [race_list EXCEPT ![r] = Tail(@)]
    /\ UNCHANGED <<race_prior, race_compared, race_overlap, notRaceVars>>

\* The run of valgrind, which writes the output file of the path.
RaceRun(r) ==
    /\ race_pc[r] = "renaming"
    /\ race_list[r] = <<>>
    /\ race_fs' = [race_fs EXCEPT ![Out] = <<r, Out>>]
    /\ race_pc' = [race_pc EXCEPT ![r] = "ran"]
    /\ UNCHANGED <<race_list, race_prior, race_compared, race_missed, race_taken, race_overlap,
                   notRaceVars>>

\* The read of the old output the new one is compared with.
RaceCompare(r) ==
    /\ race_pc[r] = "ran"
    /\ race_compared' = [race_compared EXCEPT ![r] = race_fs[OutOld]]
    /\ race_pc' = [race_pc EXCEPT ![r] = "done"]
    /\ UNCHANGED <<race_fs, race_list, race_prior, race_missed, race_taken, race_overlap,
                   notRaceVars>>

NextRace ==
    \E r \in RaceRunners :
        \/ RaceBegin(r)
        \/ RaceRemove(r)
        \/ RaceGlob(r)
        \/ RaceRename(r)
        \/ RaceRun(r)
        \/ RaceCompare(r)

SpecRace == InitRace /\ [][NextRace]_vars

RaceDone(r) == race_pc[r] = "done"
RaceFailed(r) == race_pc[r] = "failed"

\* The baseline of runner r is not the output of the run before it.
BaselineMissing(r) == RaceDone(r) /\ race_compared[r] = NoFile
BaselineOfAnotherRun(r) ==
    RaceDone(r) /\ race_compared[r] # NoFile /\ race_compared[r] # race_prior[r]

\* CLAIM C35: the rotation of the files is not safe with runners at the same time.  When
\* one runner ends before the next begins, no step of the rotation fails and every runner
\* compares with what the output file held when it began; a step of the rotation fails
\* only on a file that another runner has removed or renamed; and with runners at the same
\* time there are interleavings of the removes, renames and writes after which the old
\* output is missing, holds something else than the output of the run before, or a step
\* has failed (the states C35_Witness, C35_BaselineOfAnotherRun, C35_StepFailed).
C35_RotationIsNotConcurrencySafe ==
    /\ ~race_overlap =>
           \A r \in RaceRunners :
               /\ ~RaceFailed(r)
               /\ RaceDone(r) => race_compared[r] = race_prior[r]
    /\ \A r \in RaceRunners :
           /\ RaceFailed(r) =>
                  /\ race_overlap
                  /\ \E q \in RaceRunners \ {r} : q \in race_taken[race_missed[r]]
           /\ BaselineMissing(r) \/ BaselineOfAnotherRun(r) => race_overlap

\* Both runners have rotated, run and compared, no step failed, and one of them found no
\* old output to compare with.
C35_Witness ==
    /\ \A r \in RaceRunners : RaceDone(r)
    /\ \E r \in RaceRunners : BaselineMissing(r)

\* A runner compared with an output that is not the one of the run before.
C35_BaselineOfAnotherRun == \E r \in RaceRunners : BaselineOfAnotherRun(r)

\* A step of the rotation of a runner failed on a file another runner had renamed.
C35_StepFailed ==
    \E r \in RaceRunners :
        /\ RaceFailed(r)
        /\ race_missed[r] = Out
        /\ \E q \in RaceRunners \ {r} : race_fs[OutOld] = PriorOutput /\ q \in race_taken[Out]

====
